---- MODULE Spec2Model ----
(***************************************************************************)
(* Migration engine of mysql_to_postgresql: batched full-table transfer    *)
(* (sequential and parallel), missing-row delta sync and the full          *)
(* migration drivers, modelled as state machines over a source store and a *)
(* target store.                                                           *)
(*                                                                         *)
(* A table has one column `id` whose MySQL type is either an int type or   *)
(* tinyint(1); the column is the primary key when hasKey is TRUE.  A row   *)
(* is the value of that column.  The source table is the sequence of its   *)
(* rows in the order LIMIT/OFFSET pages walk it; the target table is a bag *)
(* of the (coerced) values that were inserted.                             *)
(***************************************************************************)
EXTENDS Integers, Sequences, FiniteSets, TLC

\* ------------------------------------------------------------------ bounds
MaxRows == 3
MaxBatch == 2
MaxThreads == 2
MaxRuns == 2
MaxWrites == 1
NumTables == 2
MaxDriverRows == 2
MaxIndexes == 2

Tables == 1..NumTables
MaxTasks == IF MaxRows > MaxThreads THEN MaxRows ELSE MaxThreads
Workers == 1..MaxTasks
Ids == 1..MaxRows
IdCats == {"int", "boolean"}

VARIABLES
  source,      \* source[t]: rows of MySQL table t, in page order
  idCat,       \* idCat[t]: type category of the id column
  hasKey,      \* hasKey[t]: the id column is the PRIMARY KEY
  target,      \* target[t]: bag of rows of PostgreSQL table t (value -> count)
  exists,      \* exists[t]: PostgreSQL table t has been created
  writable,    \* other clients write to the source while the engine runs
  batch_size,  \* self.batch_size
  threads,     \* self.threads
  entry,       \* the entry point that is running
  cur,         \* table_name of the running migrate_* call
  pc,          \* position of the manager's own thread
  total,       \* migrate_table: total
  offset,      \* migrate_table: offset
  rows,        \* migrate_table: rows (the page just fetched)
  runs,        \* number of migrate_table calls started on cur
  fetched,     \* fetched[t]: offsets of the page fetches of the current call
  inserts,     \* inserts[t]: batch INSERT statements committed in the current call
  processed,   \* processed[t]: offsets of the pages migrate_rows has returned
               \* for in the current call (committed, or empty)
  progress,    \* progress[t]: the (done, total) pairs the current call has logged
  counts,      \* target row count at each normal return of migrate_table
  startTarget, \* target[cur] when the first call started
  failedAny,   \* some page fetch or batch load has failed
  wrote,       \* number of writes other clients have made to the source
  groups,      \* migrate_table_parallel: groups (one offset list per worker)
  wpc,         \* wpc[w]: position of worker task w
  widx,        \* widx[w]: index in its offset list of the offset w works on
  wrows,       \* wrows[w]: rows (the page worker w just fetched)
  wcount,      \* wcount[w]: migrated_count of worker w
  wopen,       \* wopen[w]: the connections worker w has open
  txAborted,   \* txAborted[w]: w's target connection is in a failed transaction
  wpending,    \* wpending[w]: values inserted on w's target connection in a
               \* transaction that is neither committed nor rolled back
  attempts,    \* attempts[w]: offsets whose page worker w has tried to fetch
  wfails,      \* wfails[w]: offsets at which worker w caught an exception
  calls,       \* store calls made by worker tasks: who called on whose connection
  collected,   \* workers whose future the manager has consumed
  migrated,    \* migrate_table_parallel: migrated
  mysql_ids,   \* get_missing_ids: mysql_ids
  missing,     \* migrate_missing_rows*: the sorted list of missing ids
  cidx,        \* migrate_missing_rows: number of chunks already processed
  startIds,    \* ids present in the source when the delta sync started
  requested,   \* ids the delta sync has put in the IN list of a source query
  inlists,     \* the IN lists of those queries, in the order they were sent
  phase,       \* step of the driver: "create", "migrate", "sequences", "end", "raised"
  tidx,        \* position of the driver's loop in the table list
  seqval,      \* seqval[t]: last value of the serial sequence of target table t
  mconn,       \* the connections the manager itself holds: self.fetcher.conn,
               \* self.postgres_conn
  connFailed,  \* some attempt to open a connection has failed
  srcIndexes,  \* srcIndexes[t]: the non-unique indexes of source table t
  pgIndexes,   \* pgIndexes[t]: the indexes that exist on target table t
  idxTried,    \* idxTried[t]: the indexes whose CREATE INDEX has been executed
  mysql_type,  \* the type string a mapping function is called with
  given,       \* FALSE when that argument is absent (None)
  category,    \* what get_mysql_type_category returned
  pg_type,     \* what map_mysql_to_postgres_type returned
  column,      \* the values of the column transform_data_types is given
  dtype,       \* the dtype that column has after transform_data_types
  createTried, \* tables for which create_postgres_table has been called
  seqTried,    \* tables for which update_sequence has been called
  setvals,     \* tables for which update_sequence has executed its setval
  ipos,        \* create_postgres_table: 0 before CREATE TABLE, then the
               \* position of the index loop
  is_nullable, \* create_postgres_table: col[2] of the column, "YES" or "NO"
  default,     \* col[4]: <<>> for None, else the default as a one-element tuple
  extra,       \* col[5]
  col_def,     \* the column definition built for the column
  table_name,  \* create_postgres_table: table_name
  indexes,     \* the rows of SHOW INDEX: non_unique, key_name, column_name
  unique_keys,     \* the dict unique_keys, as (key_name, columns) in insertion order
  non_unique_keys, \* the dict non_unique_keys, likewise
  constraints,     \* the column lists of the UNIQUE constraints of CREATE TABLE
  idx_stmts,       \* the CREATE INDEX IF NOT EXISTS statements executed: name, columns
  idx_made,        \* the indexes these statements have created: name, columns
  id_column,   \* migrate_missing_rows_parallel: id_column
  src_rows,    \* the rows of the source table as (id, code) pairs
  tgt_keys,    \* the values of id_column the target table holds
  loaded       \* per migrate_batch task: its batch_ids and the rows it fetched

storeVars == <<source, idCat, hasKey, target, exists, writable>>
mapVars == <<mysql_type, given, category, pg_type, column, dtype>>
ddlVars == <<is_nullable, default, extra, col_def, table_name, indexes,
             unique_keys, non_unique_keys, constraints, idx_stmts, idx_made>>
colVars == <<id_column, src_rows, tgt_keys, loaded>>
cfgVars == <<batch_size, threads, entry, mapVars, ddlVars, colVars>>
seqVars == <<cur, pc, total, offset, rows, runs>>
histVars == <<fetched, inserts, processed, progress, counts, startTarget, failedAny,
              wrote>>
parVars == <<groups, wpc, widx, wrows, wcount, wopen, txAborted, wpending, attempts,
             wfails, calls, collected, migrated>>
deltaVars == <<mysql_ids, missing, cidx, startIds, requested, inlists>>
idxVars == <<srcIndexes, pgIndexes, idxTried, ipos>>
stepVars == <<createTried, seqTried, setvals>>
drvVars == <<phase, tidx, seqval, mconn, connFailed, idxVars, stepVars>>
vars == <<storeVars, cfgVars, seqVars, histVars, parVars, deltaVars, drvVars>>

\* ----------------------------------------------------------------- helpers
Min(a, b) == IF a < b THEN a ELSE b

Range(s) == {s[i] : i \in 1..Len(s)}

EmptyBag == [v \in Ids |-> 0]

RECURSIVE SumTo(_, _)
SumTo(bag, n) == IF n = 0 THEN 0 ELSE bag[n] + SumTo(bag, n - 1)

\* SELECT COUNT(*) on a target table
RowCount(bag) == SumTo(bag, MaxRows)

\* the set of id values present in a target table
BagIds(bag) == {v \in Ids : bag[v] > 0}

\* a range that leaves out the last, partial page
Offsets_floor(tot, b) == [i \in 1..(tot \div b) |-> (i - 1) * b]

\* range(0, total, batch_size)
Offsets(tot, b) == [i \in 1..((tot + b - 1) \div b) |-> (i - 1) * b]

\* SELECT * FROM t LIMIT lim OFFSET off
Page(s, off, lim) == SubSeq(s, off + 1, Min(off + lim, Len(s)))

\* transform_data_types on one value of the id column: a tinyint(1) column
\* goes through bool(x) (True is 1, False is 0), an int column through Int32
Coerce(cat, v) == IF cat = "boolean" THEN (IF v = 0 THEN 0 ELSE 1) ELSE v

transform_data_types(cat, rs) == [i \in 1..Len(rs) |-> Coerce(cat, rs[i])]

\* execute_values without the ON CONFLICT DO NOTHING clause taking effect
RECURSIVE execute_values_noskip(_, _, _)
execute_values_noskip(bag, vals, key) ==
  IF vals = <<>> THEN bag
  ELSE execute_values_noskip([bag EXCEPT ![Head(vals)] = @ + 1], Tail(vals), key)

\* an INSERT that a single conflicting row makes fail as a whole
execute_values_abort(bag, vals, key) ==
  IF key /\ \E i \in 1..Len(vals) : bag[vals[i]] > 0
  THEN bag
  ELSE execute_values_noskip(bag, vals, key)

\* INSERT ... VALUES ... ON CONFLICT DO NOTHING: a row that violates the
\* primary key is skipped; a table without a key accepts every row
RECURSIVE execute_values(_, _, _)
execute_values(bag, vals, key) ==
  IF vals = <<>> THEN bag
  ELSE execute_values(
         [bag EXCEPT ![Head(vals)] = IF key /\ @ > 0 THEN @ ELSE @ + 1],
         Tail(vals), key)

\* execute_values(cursor, sql, values): the values are sent one page of
\* page_size rows per statement (psycopg2's default is 100 for the default
\* batch size of 10000; scaled here to the batch sizes of the model)
page_size == 1

\* worker: what a statement of execute_values that raises on the client
\* (a value that cannot be adapted) leaves in the open transaction: the pages
\* sent before it; the except clause of the worker does not roll back
PendingPrefixes(vals) ==
  {SubSeq(vals, 1, k) : k \in {j \in 0..(Len(vals) - 1) : j % page_size = 0}}

\* an except clause that swallows the error and resumes the loop at p
AfterInsertError_swallow(p) == p

\* insert_into_postgres: `except Exception` rolls back, logs and re-raises;
\* neither migrate_rows nor the loop (at position p) catches the exception
AfterInsertError(p) == "raised"

\* a loop that starts at the second page
StartOffset_second(b) == b

\* migrate_table: offset = 0, whatever the batch size b
StartOffset(b) == 0

\* a loop that leaves before the last row is reached
LoopTest_early(off, tot) == off + 1 < tot

\* migrate_table: the test of `while offset < total`
LoopTest(off, tot) == off < tot

\* a report of the offset as it is, beyond the total on the last page
Reported_offset(off, tot) == <<off, tot>>

\* migrate_table: logger.info(f"Progress: {min(offset, total)}/{total} ...")
Reported(off, tot) == <<Min(off, tot), tot>>

\* a loop bound that is counted again at every test
LoopBound_reread(tot, src) == Len(src)

\* migrate_table: the loop tests the local `total`, read once before the loop
LoopBound(tot, src) == tot

\* an offset that advances one row too far
NextOffset_skip(off, b) == off + b + 1

\* migrate_table: offset += self.batch_size
NextOffset(off, b) == off + b

\* ------------------------------------------------------------ source store
\* another client inserts a row into, or deletes a row from, the source
SourceWrite ==
  /\ writable
  /\ wrote < MaxWrites
  /\ pc \in {"loop", "rows", "scan", "chunk", "chunkrows"}
  /\ \E t \in {cur} :
       \/ /\ Len(source[t]) < MaxRows
          /\ \E v \in Ids \ Range(source[t]), p \in 0..Len(source[t]) :
               source' = [source EXCEPT ![t] =
                            SubSeq(@, 1, p) \o <<v>> \o SubSeq(@, p + 1, Len(@))]
       \/ /\ Len(source[t]) > 0
          /\ \E p \in 1..Len(source[t]) :
               source' = [source EXCEPT ![t] =
                            SubSeq(@, 1, p - 1) \o SubSeq(@, p + 1, Len(@))]
  /\ wrote' = wrote + 1
  /\ UNCHANGED <<idCat, hasKey, target, exists, writable>>
  /\ UNCHANGED <<cfgVars, seqVars>>
  /\ UNCHANGED <<fetched, inserts, processed, progress, counts, startTarget, failedAny>>
  /\ UNCHANGED <<parVars, deltaVars>>
  /\ UNCHANGED drvVars

\* ------------------------------------------------- the manager's connections
BothConns == {"mysql", "postgres"}

\* a failed connect after which the run goes on at position p
AfterConnectError_continue(p) == p

\* create_connections has no except clause and neither has the scenario
\* around it: the exception of a failed connect ends the run, which does not
\* go on at position p
AfterConnectError(p) == "raised"

\* create_connections, called by a scenario's run (directly or through
\* __enter__) before anything else: self.fetcher.connect(), then
\* self.writer.connect(); an exception of either leaves run
ManagerConnect ==
  /\ phase = "enter"
  /\ \E res \in {"ok", "mysql", "postgres"} :
       CASE res = "ok" ->
              /\ mconn' = BothConns
              /\ phase' = "migrate"
              /\ UNCHANGED connFailed
         [] res = "mysql" ->
              /\ mconn' = {}
              /\ phase' = AfterConnectError("migrate")
              /\ connFailed' = TRUE
         [] res = "postgres" ->
              /\ mconn' = {"mysql"}
              /\ phase' = AfterConnectError("migrate")
              /\ connFailed' = TRUE
  /\ UNCHANGED <<storeVars, cfgVars, seqVars, histVars, parVars, deltaVars>>
  /\ UNCHANGED <<tidx, seqval, idxVars, stepVars>>

\* ------------------------------------------- sequential full-table transfer
\* migrate_table: total = get_total_rows(table); offset = 0
MigrateTableStart ==
  /\ entry \in {"single", "full"} \/ (entry = "scenario" /\ ~(threads > 1))
  /\ phase = "migrate"
  /\ pc = "idle"
  /\ total' = Len(source[cur])
  /\ offset' = StartOffset(batch_size)
  /\ rows' = <<>>
  /\ runs' = runs + 1
  /\ pc' = "loop"
  /\ fetched' = [fetched EXCEPT ![cur] = <<>>]
  /\ inserts' = [inserts EXCEPT ![cur] = 0]
  /\ processed' = [processed EXCEPT ![cur] = <<>>]
  /\ progress' = [progress EXCEPT ![cur] = <<>>]
  /\ startTarget' = IF runs = 0 THEN target[cur] ELSE startTarget
  /\ UNCHANGED <<storeVars, cfgVars, cur, counts, failedAny, wrote>>
  /\ UNCHANGED <<parVars, deltaVars>>
  /\ UNCHANGED drvVars

\* the loop test and fetch_data_in_batch(table, offset, batch_size); an
\* exception of the fetch leaves migrate_table
FetchPage ==
  /\ pc = "loop"
  /\ LoopTest(offset, LoopBound(total, source[cur]))
  /\ fetched' = [fetched EXCEPT ![cur] = Append(@, offset)]
  /\ \E ok \in BOOLEAN :
       IF ok
       THEN /\ rows' = Page(source[cur], offset, batch_size)
            /\ pc' = "rows"
            /\ UNCHANGED failedAny
       ELSE /\ rows' = <<>>
            /\ pc' = "raised"
            /\ failedAny' = TRUE
  /\ UNCHANGED <<storeVars, cfgVars, cur, total, offset, runs>>
  /\ UNCHANGED <<inserts, processed, progress, counts, startTarget, wrote>>
  /\ UNCHANGED <<parVars, deltaVars>>
  /\ UNCHANGED drvVars

\* migrate_rows(table, rows) and offset += batch_size: nothing is inserted
\* for an empty page; insert_into_postgres rolls back and re-raises when
\* the INSERT fails, which it does when the target table does not exist
MigrateRows ==
  /\ pc = "rows"
  /\ IF rows = <<>>
     THEN /\ offset' = NextOffset(offset, batch_size)
          /\ processed' = [processed EXCEPT ![cur] = Append(@, offset)]
          /\ progress' = [progress EXCEPT ![cur] = Append(@, Reported(NextOffset(offset, batch_size), total))]
          /\ pc' = "loop"
          /\ UNCHANGED <<target, inserts, failedAny>>
     ELSE \E ok \in BOOLEAN :
            IF ok /\ exists[cur]
            THEN /\ target' = [target EXCEPT ![cur] =
                      execute_values(@, transform_data_types(idCat[cur], rows),
                                     hasKey[cur])]
                 /\ inserts' = [inserts EXCEPT ![cur] = @ + 1]
                 /\ processed' = [processed EXCEPT ![cur] = Append(@, offset)]
                 /\ progress' = [progress EXCEPT ![cur] = Append(@, Reported(NextOffset(offset, batch_size), total))]
                 /\ offset' = NextOffset(offset, batch_size)
                 /\ pc' = "loop"
                 /\ UNCHANGED failedAny
            ELSE /\ pc' = AfterInsertError("loop")
                 /\ failedAny' = TRUE
                 /\ UNCHANGED <<target, inserts, processed, progress, offset>>
  /\ rows' = <<>>
  /\ UNCHANGED <<source, idCat, hasKey, exists, writable>>
  /\ UNCHANGED <<cfgVars, cur, total, runs>>
  /\ UNCHANGED <<fetched, counts, startTarget, wrote>>
  /\ UNCHANGED <<parVars, deltaVars>>
  /\ UNCHANGED drvVars

\* the loop test fails: migrate_table returns
MigrateTableReturn ==
  /\ pc = "loop"
  /\ ~LoopTest(offset, LoopBound(total, source[cur]))
  /\ pc' = "done"
  /\ counts' = Append(counts, RowCount(target[cur]))
  /\ UNCHANGED <<storeVars, cfgVars, cur, total, offset, rows, runs>>
  /\ UNCHANGED <<fetched, inserts, processed, progress, startTarget, failedAny, wrote>>
  /\ UNCHANGED <<parVars, deltaVars>>
  /\ UNCHANGED drvVars

\* the caller runs the migration of the same table once more
MigrateTableAgain ==
  /\ entry = "single"
  /\ pc = "done"
  /\ runs < MaxRuns
  /\ pc' = "idle"
  /\ UNCHANGED <<storeVars, cfgVars, cur, total, offset, rows, runs, histVars>>
  /\ UNCHANGED <<parVars, deltaVars>>
  /\ UNCHANGED drvVars

\* -------------------------------------------- parallel full-table transfer
\* a worker count that is not limited to the number of chunks
WorkerCount_uncapped(th, noffsets) == IF th = 0 THEN 1 ELSE th

\* workers = min(self.threads or 1, len(offsets))
WorkerCount(th, noffsets) == Min(IF th = 0 THEN 1 ELSE th, noffsets)

\* a partition that gives every offset to the first worker
RoundRobin_first(offs, nw) == [g \in 1..nw |-> IF g = 1 THEN offs ELSE <<>>]

\* groups[idx % workers].append(off) for idx, off in enumerate(offsets)
RoundRobin(offs, nw) ==
  [g \in 1..nw |->
     [k \in 1..((Len(offs) - g) \div nw + 1) |-> offs[g + (k - 1) * nw]]]

\* a store call: task `who` runs statement `op` on a connection of pair `conn`
\* (pair w belongs to worker w, pair 0 is the manager's fetcher and writer)
Call(who, conn, op) == [who |-> who, conn |-> conn, op |-> op]

\* a structure read on the worker's own source connection
StructureConn_own(w) == w

\* the connection get_table_structure runs DESCRIBE / SHOW INDEX on when a
\* worker calls self.get_table_structure: self.fetcher.conn
StructureConn(w) == 0

\* the next offset of worker w, or the end of its list
WorkerAdvance(w) == widx' = [widx EXCEPT ![w] = @ + 1]

\* an except clause that leaves the loop over the n offsets
AfterOffsetError_break(i, n) == n + 1

\* worker: `except Exception` inside the loop logs the error of the i-th of
\* n offsets; the for loop then takes the next one
AfterOffsetError(i, n) == i + 1

WorkerCaught(w) == widx' = [widx EXCEPT ![w] = AfterOffsetError(@, Len(groups[w]))]

\* migrate_table_parallel up to the submission of the workers: nothing is
\* scheduled for an empty table
ParallelStart ==
  /\ entry = "parallel" \/ (entry = "scenario" /\ threads > 1)
  /\ phase = "migrate"
  /\ pc = "idle"
  /\ total' = Len(source[cur])
  /\ runs' = runs + 1
  /\ fetched' = [fetched EXCEPT ![cur] = <<>>]
  /\ inserts' = [inserts EXCEPT ![cur] = 0]
  /\ UNCHANGED <<processed, progress>>
  /\ startTarget' = target[cur]
  /\ IF Len(source[cur]) = 0
     THEN /\ pc' = "done"
          /\ UNCHANGED <<groups, wpc>>
     ELSE LET offs == Offsets(Len(source[cur]), batch_size)
              nw == WorkerCount(threads, Len(offs))
          IN /\ groups' = RoundRobin(offs, nw)
             /\ wpc' = [w \in Workers |-> IF w <= nw THEN "start" ELSE "none"]
             /\ pc' = "join"
  /\ UNCHANGED <<storeVars, cfgVars, cur, offset, rows>>
  /\ UNCHANGED <<counts, failedAny, wrote>>
  /\ UNCHANGED <<widx, wrows, wcount, wopen, txAborted, wpending, attempts, wfails,
                 calls, collected, migrated>>
  /\ UNCHANGED deltaVars
  /\ UNCHANGED drvVars

\* worker: create_mysql_connection(); an exception leaves the task
WorkerOpenSource(w) ==
  /\ entry \in {"parallel", "scenario"}
  /\ wpc[w] = "start"
  /\ IF groups[w] = <<>>
     THEN /\ wpc' = [wpc EXCEPT ![w] = "returned"]
          /\ UNCHANGED <<wopen, connFailed>>
     ELSE \E ok \in BOOLEAN :
            IF ok
            THEN /\ UNCHANGED connFailed
                 /\ wopen' = [wopen EXCEPT ![w] = @ \cup {"mysql"}]
                 /\ wpc' = [wpc EXCEPT ![w] = "connect"]
            ELSE /\ connFailed' = TRUE
                 /\ wpc' = [wpc EXCEPT ![w] = "raised"]
                 /\ UNCHANGED wopen
  /\ UNCHANGED <<storeVars, cfgVars, seqVars, histVars, deltaVars>>
  /\ UNCHANGED <<groups, widx, wrows, wcount, txAborted, wpending, attempts, wfails,
                 calls, collected, migrated>>
  /\ UNCHANGED <<phase, tidx, seqval, mconn, idxVars, stepVars>>

\* worker: create_postgres_connection(); it runs before the try block, so
\* an exception leaves the task without closing the source connection
WorkerOpenTarget(w) ==
  /\ entry \in {"parallel", "scenario"}
  /\ wpc[w] = "connect"
  /\ \E ok \in BOOLEAN :
       IF ok
       THEN /\ UNCHANGED connFailed
            /\ wopen' = [wopen EXCEPT ![w] = @ \cup {"postgres"}]
            /\ wpc' = [wpc EXCEPT ![w] = "fetch"]
            /\ widx' = [widx EXCEPT ![w] = 1]
       ELSE /\ connFailed' = TRUE
            /\ wpc' = [wpc EXCEPT ![w] = "raised"]
            /\ UNCHANGED <<wopen, widx>>
  /\ UNCHANGED <<storeVars, cfgVars, seqVars, histVars, deltaVars>>
  /\ UNCHANGED <<groups, wrows, wcount, txAborted, wpending, attempts, wfails,
                 calls, collected, migrated>>
  /\ UNCHANGED <<phase, tidx, seqval, mconn, idxVars, stepVars>>

\* worker: SELECT ... LIMIT batch_size OFFSET off on its own source
\* connection; an exception is logged and the loop goes to the next offset,
\* as it does (continue) for an empty page
WorkerFetch(w) ==
  /\ entry \in {"parallel", "scenario"}
  /\ wpc[w] = "fetch"
  /\ widx[w] <= Len(groups[w])
  /\ LET off == groups[w][widx[w]] IN
       /\ attempts' = [attempts EXCEPT ![w] = Append(@, off)]
       /\ calls' = calls \cup {Call(w, w, "fetch")}
       /\ \E ok \in BOOLEAN :
            IF ok
            THEN LET page == Page(source[cur], off, batch_size) IN
                   IF page = <<>>
                   THEN /\ WorkerAdvance(w)
                        /\ UNCHANGED <<wpc, wrows, wfails>>
                   ELSE /\ wrows' = [wrows EXCEPT ![w] = page]
                        /\ wpc' = [wpc EXCEPT ![w] = "load"]
                        /\ UNCHANGED <<widx, wfails>>
            ELSE /\ wfails' = [wfails EXCEPT ![w] = Append(@, off)]
                 /\ WorkerCaught(w)
                 /\ UNCHANGED <<wpc, wrows>>
  /\ UNCHANGED <<storeVars, cfgVars, seqVars, histVars, deltaVars>>
  /\ UNCHANGED <<groups, wcount, wopen, txAborted, wpending, collected, migrated>>
  /\ UNCHANGED drvVars

\* worker: self.get_table_structure(table), transform_data_types, INSERT and
\* commit on its own target connection, migrated_count += len(rows).  An
\* exception is logged (there is no rollback) and the loop goes on; a failed
\* statement leaves the connection in an aborted transaction
WorkerLoad(w) ==
  /\ UNCHANGED <<processed, progress>>
  /\ entry \in {"parallel", "scenario"}
  /\ wpc[w] = "load"
  /\ LET off == groups[w][widx[w]] IN
     \E res \in {"ok", "structure", "insert"} :
       CASE res = "structure" ->
              /\ calls' = calls \cup {Call(w, StructureConn(w), "structure")}
              /\ wfails' = [wfails EXCEPT ![w] = Append(@, off)]
              /\ WorkerCaught(w)
              /\ UNCHANGED <<target, inserts, wcount, txAborted, wpending>>
         [] res = "insert" ->
              /\ calls' = calls \cup {Call(w, StructureConn(w), "structure"),
                                      Call(w, w, "insert")}
              /\ wfails' = [wfails EXCEPT ![w] = Append(@, off)]
              /\ WorkerCaught(w)
              /\ \E ab \in BOOLEAN :
                   IF txAborted[w] \/ ab
                   THEN /\ txAborted' = [txAborted EXCEPT ![w] = TRUE]
                        /\ wpending' = [wpending EXCEPT ![w] = <<>>]
                   ELSE /\ \E done \in (IF exists[cur]
                                        THEN PendingPrefixes(transform_data_types(
                                               idCat[cur], wrows[w]))
                                        ELSE {<<>>}) :
                             wpending' = [wpending EXCEPT ![w] = @ \o done]
                        /\ UNCHANGED txAborted
              /\ UNCHANGED <<target, inserts, wcount>>
         [] res = "ok" ->
              /\ exists[cur]
              /\ ~txAborted[w]
              /\ calls' = calls \cup {Call(w, StructureConn(w), "structure"),
                                      Call(w, w, "insert"), Call(w, w, "commit")}
              /\ target' = [target EXCEPT ![cur] =
                   execute_values(@, wpending[w] \o
                                     transform_data_types(idCat[cur], wrows[w]),
                                  hasKey[cur])]
              /\ wpending' = [wpending EXCEPT ![w] = <<>>]
              /\ inserts' = [inserts EXCEPT ![cur] = @ + 1]
              /\ wcount' = [wcount EXCEPT ![w] = @ + Len(wrows[w])]
              /\ WorkerAdvance(w)
              /\ UNCHANGED <<wfails, txAborted>>
  /\ wrows' = [wrows EXCEPT ![w] = <<>>]
  /\ wpc' = [wpc EXCEPT ![w] = "fetch"]
  /\ UNCHANGED <<source, idCat, hasKey, exists, writable>>
  /\ UNCHANGED <<cfgVars, seqVars>>
  /\ UNCHANGED <<fetched, counts, startTarget, failedAny, wrote>>
  /\ UNCHANGED <<groups, wopen, attempts, collected, migrated>>
  /\ UNCHANGED deltaVars
  /\ UNCHANGED drvVars

\* worker: the offset list is exhausted; return migrated_count, the finally
\* block closes both connections
WorkerReturn(w) ==
  /\ entry \in {"parallel", "scenario"}
  /\ wpc[w] = "fetch"
  /\ widx[w] > Len(groups[w])
  /\ wpc' = [wpc EXCEPT ![w] = "returned"]
  /\ wopen' = [wopen EXCEPT ![w] = {}]
  /\ wpending' = [wpending EXCEPT ![w] = <<>>]
  /\ UNCHANGED <<storeVars, cfgVars, seqVars, histVars, deltaVars>>
  /\ UNCHANGED <<groups, widx, wrows, wcount, txAborted, attempts, wfails,
                 calls, collected, migrated>>
  /\ UNCHANGED drvVars

\* as_completed: the manager takes the result of a finished worker; a worker
\* that raised is logged and counts 0
ParallelCollect(w) ==
  /\ entry \in {"parallel", "scenario"}
  /\ pc = "join"
  /\ w \notin collected
  /\ wpc[w] \in {"returned", "raised"}
  /\ collected' = collected \cup {w}
  /\ migrated' = migrated + (IF wpc[w] = "returned" THEN wcount[w] ELSE 0)
  /\ UNCHANGED <<storeVars, cfgVars, seqVars, histVars, deltaVars>>
  /\ UNCHANGED <<groups, wpc, widx, wrows, wcount, wopen, txAborted, wpending, attempts,
                 wfails, calls>>
  /\ UNCHANGED drvVars

\* every future has been consumed: the executor is shut down and
\* migrate_table_parallel returns
ParallelReturn ==
  /\ entry \in {"parallel", "scenario"}
  /\ pc = "join"
  /\ collected = {w \in Workers : wpc[w] # "none"}
  /\ pc' = "done"
  /\ counts' = Append(counts, RowCount(target[cur]))
  /\ UNCHANGED <<storeVars, cfgVars, cur, total, offset, rows, runs>>
  /\ UNCHANGED <<fetched, inserts, processed, progress, startTarget, failedAny, wrote>>
  /\ UNCHANGED <<parVars, deltaVars>>
  /\ UNCHANGED drvVars

\* --------------------------------------------------------------- delta sync
\* a sort that puts the greatest id first
RECURSIVE SortSet_descending(_)
SortSet_descending(S) ==
  IF S = {} THEN <<>>
  ELSE LET m == CHOOSE x \in S : \A y \in S : x >= y
       IN <<m>> \o SortSet_descending(S \ {m})

\* sorted(ids)
RECURSIVE SortSet(_)
SortSet(S) ==
  IF S = {} THEN <<>>
  ELSE LET m == CHOOSE x \in S : \A y \in S : x <= y
       IN <<m>> \o SortSet(S \ {m})

\* a difference that keeps the ids the target already has
MissingIds_all(srcIds, tgtIds) == SortSet(srcIds)

\* get_missing_ids: sorted(list(mysql_ids - postgres_ids))
MissingIds(srcIds, tgtIds) == SortSet(srcIds \ tgtIds)

\* chunks that share an id with the next chunk
Chunk_overlap(m, k, b) == SubSeq(m, k * b + 1, Min((k + 1) * b + 1, Len(m)))

\* missing[i:i + batch_size] for the k-th chunk (k = 0, 1, ...)
Chunk(m, k, b) == SubSeq(m, k * b + 1, Min((k + 1) * b, Len(m)))

\* range(0, len(missing), batch_size) has this many elements
NumChunks(m, b) == (Len(m) + b - 1) \div b

\* SELECT * FROM t WHERE id IN (ids)
FetchByIds(s, ids) == SelectSeq(s, LAMBDA v : v \in Range(ids))

\* get_missing_ids, first half: read every id of the source table
DeltaScanSource ==
  /\ entry \in {"delta", "deltapar"}
  /\ phase = "migrate"
  /\ pc = "idle"
  /\ mysql_ids' = Range(source[cur])
  /\ startIds' = Range(source[cur])
  /\ requested' = {}
  /\ inlists' = <<>>
  /\ startTarget' = target[cur]
  /\ runs' = runs + 1
  /\ pc' = "scan"
  /\ UNCHANGED <<storeVars, cfgVars, cur, total, offset, rows>>
  /\ UNCHANGED <<fetched, inserts, processed, progress, counts, failedAny, wrote>>
  /\ UNCHANGED <<parVars, missing, cidx>>
  /\ UNCHANGED drvVars

\* get_missing_ids, second half: read every id of the target table (an
\* error when the table does not exist) and sort the difference; then the
\* early return of migrate_missing_rows* for an empty list, or, in the
\* parallel variant, the submission of one migrate_batch task per chunk
DeltaScanTarget ==
  /\ pc = "scan"
  /\ IF ~exists[cur]
     THEN /\ pc' = "raised"
          /\ failedAny' = TRUE
          /\ UNCHANGED <<missing, groups, wpc>>
     ELSE LET m == MissingIds(mysql_ids, BagIds(target[cur])) IN
          /\ missing' = m
          /\ UNCHANGED failedAny
          /\ IF m = <<>>
             THEN /\ pc' = "done"
                  /\ UNCHANGED <<groups, wpc>>
             ELSE IF entry = "delta"
             THEN /\ pc' = "chunk"
                  /\ UNCHANGED <<groups, wpc>>
             ELSE /\ pc' = "join"
                  /\ groups' = [k \in 1..NumChunks(m, batch_size) |->
                                  Chunk(m, k - 1, batch_size)]
                  /\ wpc' = [w \in Workers |->
                               IF w <= NumChunks(m, batch_size)
                               THEN "queued" ELSE "none"]
  /\ UNCHANGED <<storeVars, cfgVars, cur, total, offset, rows, runs>>
  /\ UNCHANGED <<fetched, inserts, processed, progress, counts, startTarget, wrote>>
  /\ UNCHANGED <<widx, wrows, wcount, wopen, txAborted, wpending, attempts, wfails,
                 calls, collected, migrated>>
  /\ UNCHANGED <<mysql_ids, cidx, startIds, requested, inlists>>
  /\ UNCHANGED drvVars

\* migrate_missing_rows: fetch_missing_rows(table, batch, id_column) for the
\* next chunk; an exception leaves migrate_missing_rows
DeltaFetchChunk ==
  /\ entry = "delta"
  /\ pc = "chunk"
  /\ cidx < NumChunks(missing, batch_size)
  /\ \E ok \in BOOLEAN :
       IF ok
       THEN /\ rows' = FetchByIds(source[cur], Chunk(missing, cidx, batch_size))
            /\ pc' = "chunkrows"
            /\ UNCHANGED failedAny
       ELSE /\ rows' = <<>>
            /\ pc' = "raised"
            /\ failedAny' = TRUE
  /\ UNCHANGED <<storeVars, cfgVars, cur, total, offset, runs>>
  /\ UNCHANGED <<fetched, inserts, processed, progress, counts, startTarget, wrote>>
  /\ requested' = requested \cup Range(Chunk(missing, cidx, batch_size))
  /\ inlists' = Append(inlists, Chunk(missing, cidx, batch_size))
  /\ UNCHANGED <<parVars, mysql_ids, missing, cidx, startIds>>
  /\ UNCHANGED drvVars

\* migrate_missing_rows: migrate_rows(table, rows) for the chunk just fetched
DeltaMigrateChunk ==
  /\ UNCHANGED <<processed, progress>>
  /\ entry = "delta"
  /\ pc = "chunkrows"
  /\ IF rows = <<>>
     THEN /\ cidx' = cidx + 1
          /\ pc' = "chunk"
          /\ UNCHANGED <<target, inserts, failedAny>>
     ELSE \E ok \in BOOLEAN :
            IF ok /\ exists[cur]
            THEN /\ target' = [target EXCEPT ![cur] =
                      execute_values(@, transform_data_types(idCat[cur], rows),
                                     hasKey[cur])]
                 /\ inserts' = [inserts EXCEPT ![cur] = @ + 1]
                 /\ cidx' = cidx + 1
                 /\ pc' = "chunk"
                 /\ UNCHANGED failedAny
            ELSE /\ pc' = AfterInsertError("chunk")
                 /\ failedAny' = TRUE
                 /\ UNCHANGED <<target, inserts, cidx>>
  /\ rows' = <<>>
  /\ UNCHANGED <<source, idCat, hasKey, exists, writable>>
  /\ UNCHANGED <<cfgVars, cur, total, offset, runs>>
  /\ UNCHANGED <<fetched, counts, startTarget, wrote>>
  /\ UNCHANGED <<parVars, mysql_ids, missing, startIds, requested, inlists>>
  /\ UNCHANGED drvVars

\* migrate_missing_rows: every chunk has been processed
DeltaReturn ==
  /\ entry = "delta"
  /\ pc = "chunk"
  /\ cidx >= NumChunks(missing, batch_size)
  /\ pc' = "done"
  /\ UNCHANGED <<storeVars, cfgVars, cur, total, offset, rows, runs>>
  /\ UNCHANGED <<histVars, parVars, deltaVars>>
  /\ UNCHANGED drvVars

\* the tasks a pool of self.threads threads is running
Running == {w \in Workers : wpc[w] \in {"connect", "fetch", "load"}}

\* migrate_batch: a pool thread takes the task; create_mysql_connection()
DeltaTaskOpenSource(w) ==
  /\ entry = "deltapar"
  /\ wpc[w] = "queued"
  /\ Cardinality(Running) < threads
  /\ \E ok \in BOOLEAN :
       IF ok
       THEN /\ UNCHANGED connFailed
            /\ wopen' = [wopen EXCEPT ![w] = @ \cup {"mysql"}]
            /\ wpc' = [wpc EXCEPT ![w] = "connect"]
       ELSE /\ connFailed' = TRUE
            /\ wpc' = [wpc EXCEPT ![w] = "raised"]
            /\ UNCHANGED wopen
  /\ UNCHANGED <<storeVars, cfgVars, seqVars, histVars, deltaVars>>
  /\ UNCHANGED <<groups, widx, wrows, wcount, txAborted, wpending, attempts, wfails,
                 calls, collected, migrated>>
  /\ UNCHANGED <<phase, tidx, seqval, mconn, idxVars, stepVars>>

\* migrate_batch: create_postgres_connection(), before the try block
DeltaTaskOpenTarget(w) ==
  /\ entry = "deltapar"
  /\ wpc[w] = "connect"
  /\ \E ok \in BOOLEAN :
       IF ok
       THEN /\ UNCHANGED connFailed
            /\ wopen' = [wopen EXCEPT ![w] = @ \cup {"postgres"}]
            /\ wpc' = [wpc EXCEPT ![w] = "fetch"]
       ELSE /\ connFailed' = TRUE
            /\ wpc' = [wpc EXCEPT ![w] = "raised"]
            /\ UNCHANGED wopen
  /\ UNCHANGED <<storeVars, cfgVars, seqVars, histVars, deltaVars>>
  /\ UNCHANGED <<groups, widx, wrows, wcount, txAborted, wpending, attempts, wfails,
                 calls, collected, migrated>>
  /\ UNCHANGED <<phase, tidx, seqval, mconn, idxVars, stepVars>>

\* migrate_batch: SELECT ... WHERE id IN (batch_ids) on the task's own source
\* connection; an exception, like an empty result, ends the task, whose
\* finally block closes both connections
DeltaTaskFetch(w) ==
  /\ entry = "deltapar"
  /\ wpc[w] = "fetch"
  /\ calls' = calls \cup {Call(w, w, "fetch")}
  /\ \E ok \in BOOLEAN :
       IF ok
       THEN LET res == FetchByIds(source[cur], groups[w]) IN
              IF res = <<>>
              THEN /\ wpc' = [wpc EXCEPT ![w] = "returned"]
                   /\ wopen' = [wopen EXCEPT ![w] = {}]
                   /\ UNCHANGED <<wrows, wfails>>
              ELSE /\ wrows' = [wrows EXCEPT ![w] = res]
                   /\ wpc' = [wpc EXCEPT ![w] = "load"]
                   /\ UNCHANGED <<wopen, wfails>>
       ELSE /\ wfails' = [wfails EXCEPT ![w] = Append(@, w)]
            /\ wpc' = [wpc EXCEPT ![w] = "returned"]
            /\ wopen' = [wopen EXCEPT ![w] = {}]
            /\ UNCHANGED wrows
  /\ requested' = requested \cup Range(groups[w])
  /\ inlists' = Append(inlists, groups[w])
  /\ UNCHANGED <<storeVars, cfgVars, seqVars, histVars>>
  /\ UNCHANGED <<mysql_ids, missing, cidx, startIds>>
  /\ UNCHANGED <<groups, widx, wcount, txAborted, wpending, attempts, collected, migrated>>
  /\ UNCHANGED drvVars

\* migrate_batch: self.get_table_structure(table), transform_data_types,
\* INSERT and commit on the task's own target connection; an exception is
\* logged and turned into the returned message; both connections are closed
DeltaTaskLoad(w) ==
  /\ UNCHANGED <<processed, progress>>
  /\ entry = "deltapar"
  /\ wpc[w] = "load"
  /\ \E res \in {"ok", "structure", "insert"} :
       CASE res = "structure" ->
              /\ calls' = calls \cup {Call(w, StructureConn(w), "structure")}
              /\ wfails' = [wfails EXCEPT ![w] = Append(@, w)]
              /\ UNCHANGED <<target, inserts, wcount>>
         [] res = "insert" ->
              /\ calls' = calls \cup {Call(w, StructureConn(w), "structure"),
                                      Call(w, w, "insert")}
              /\ wfails' = [wfails EXCEPT ![w] = Append(@, w)]
              /\ UNCHANGED <<target, inserts, wcount>>
         [] res = "ok" ->
              /\ exists[cur]
              /\ calls' = calls \cup {Call(w, StructureConn(w), "structure"),
                                      Call(w, w, "insert"), Call(w, w, "commit")}
              /\ target' = [target EXCEPT ![cur] =
                   execute_values(@, transform_data_types(idCat[cur], wrows[w]),
                                  hasKey[cur])]
              /\ inserts' = [inserts EXCEPT ![cur] = @ + 1]
              /\ wcount' = [wcount EXCEPT ![w] = @ + Len(wrows[w])]
              /\ UNCHANGED wfails
  /\ wrows' = [wrows EXCEPT ![w] = <<>>]
  /\ wpc' = [wpc EXCEPT ![w] = "returned"]
  /\ wopen' = [wopen EXCEPT ![w] = {}]
  /\ UNCHANGED <<source, idCat, hasKey, exists, writable>>
  /\ UNCHANGED <<cfgVars, seqVars>>
  /\ UNCHANGED <<fetched, counts, startTarget, failedAny, wrote>>
  /\ UNCHANGED <<groups, widx, txAborted, wpending, attempts, collected, migrated>>
  /\ UNCHANGED deltaVars
  /\ UNCHANGED drvVars

\* migrate_missing_rows_parallel: future.result() of every task, in
\* submission order, inside the executor's with block; the exception of a
\* task that raised is re-raised once the pool has drained
DeltaJoin ==
  /\ entry = "deltapar"
  /\ pc = "join"
  /\ \A w \in Workers : wpc[w] \in {"none", "returned", "raised"}
  /\ pc' = IF \E w \in Workers : wpc[w] = "raised" THEN "raised" ELSE "done"
  /\ UNCHANGED <<storeVars, cfgVars, cur, total, offset, rows, runs>>
  /\ UNCHANGED <<histVars, parVars, deltaVars>>
  /\ UNCHANGED drvVars

\* ------------------------------------------------------------------ drivers
\* SELECT MAX(id) on a non-empty target table
MaxId(bag) == CHOOSE m \in BagIds(bag) : \A v \in BagIds(bag) : v <= m

\* a setval whose argument ignores the rows of the table
SetvalArg_one(bag) == 1

\* setval(seq, COALESCE((SELECT MAX(pk) FROM t), 1), true)
SetvalArg(bag) == IF BagIds(bag) = {} THEN 1 ELSE MaxId(bag)

\* the value nextval returns after setval(seq, sv, true): the sequence is
\* marked as called, so the next generated key is sv + 1
NextVal(sv) == sv + 1

\* a rollback that also drops what was created before the failed statement
IndexRollback_all(idx, i) == {}

\* create_postgres_table: the rollback after a failed CREATE INDEX undoes
\* that statement alone, the indexes idx created before are committed
IndexRollback(idx, i) == idx

\* create_tables: the loop goes to the next table of the list, or
\* full_migration goes on to the data
CreateTablesNext ==
  /\ ipos' = 0
  /\ IF tidx = NumTables
     THEN /\ phase' = "migrate"
          /\ tidx' = 1
     ELSE /\ tidx' = tidx + 1
          /\ UNCHANGED phase

\* full_migration, create_tables: create_postgres_table for the next table
\* of the list, up to CREATE TABLE IF NOT EXISTS and its commit; an
\* exception is rolled back, logged and re-raised, and neither create_tables
\* nor full_migration catches it
FullCreateTable ==
  /\ entry = "full"
  /\ phase = "create"
  /\ ipos = 0
  /\ \E ok \in BOOLEAN :
       IF ok
       THEN /\ exists' = [exists EXCEPT ![tidx] = TRUE]
            /\ IF srcIndexes[tidx] = {}
               THEN CreateTablesNext
               ELSE /\ ipos' = 1
                    /\ UNCHANGED <<phase, tidx>>
            /\ UNCHANGED failedAny
       ELSE /\ phase' = "raised"
            /\ failedAny' = TRUE
            /\ UNCHANGED <<exists, tidx, ipos>>
  /\ UNCHANGED <<source, idCat, hasKey, target, writable>>
  /\ UNCHANGED <<cfgVars, seqVars>>
  /\ UNCHANGED <<fetched, inserts, processed, progress, counts, startTarget, wrote>>
  /\ UNCHANGED <<parVars, deltaVars, seqval, mconn, connFailed>>
  /\ UNCHANGED <<srcIndexes, pgIndexes, idxTried, seqTried, setvals>>
  /\ createTried' = createTried \cup {tidx}

\* create_postgres_table, index loop: CREATE INDEX IF NOT EXISTS for the
\* next non-unique index and its commit; an exception is rolled back and
\* logged, and the loop goes on
FullCreateIndex ==
  /\ entry = "full"
  /\ phase = "create"
  /\ ipos >= 1
  /\ idxTried' = [idxTried EXCEPT ![tidx] = @ \cup {ipos}]
  /\ \E ok \in BOOLEAN :
       IF ok
       THEN /\ pgIndexes' = [pgIndexes EXCEPT ![tidx] = @ \cup {ipos}]
            /\ UNCHANGED failedAny
       ELSE /\ pgIndexes' = [pgIndexes EXCEPT ![tidx] = IndexRollback(@, ipos)]
            /\ failedAny' = TRUE
  /\ IF ipos = Cardinality(srcIndexes[tidx])
     THEN CreateTablesNext
     ELSE /\ ipos' = ipos + 1
          /\ UNCHANGED <<phase, tidx>>
  /\ UNCHANGED <<storeVars, cfgVars, seqVars>>
  /\ UNCHANGED <<fetched, inserts, processed, progress, counts, startTarget, wrote>>
  /\ UNCHANGED <<parVars, deltaVars, seqval, mconn, connFailed, srcIndexes>>
  /\ UNCHANGED stepVars

\* full_migration, data loop: migrate_table of the current table has
\* returned, or has raised and the exception was logged; go to the next
\* table, or to the sequences when it was the last one
FullNextTable ==
  /\ entry = "full"
  /\ phase = "migrate"
  /\ pc \in {"done", "raised"}
  /\ IF cur < NumTables
     THEN /\ cur' = cur + 1
          /\ pc' = "idle"
          /\ runs' = 0
          /\ counts' = <<>>
          /\ UNCHANGED <<phase, tidx>>
     ELSE /\ phase' = "sequences"
          /\ tidx' = 1
          /\ UNCHANGED <<cur, pc, runs, counts>>
  /\ UNCHANGED <<storeVars, cfgVars, total, offset, rows>>
  /\ UNCHANGED <<fetched, inserts, processed, progress, startTarget, failedAny, wrote>>
  /\ UNCHANGED <<parVars, deltaVars, seqval, mconn, connFailed, idxVars, stepVars>>

\* a realignment that does not ask whether the table has a primary key
SetvalApplies_any(key) == TRUE

\* update_sequence: `if primary_keys:`, the list get_primary_key returns
SetvalApplies(key) == key

\* an except clause that ends update_all_sequences
AfterSequenceError_abort(nxt) == "raised"

\* update_all_sequences: `except Exception` logs and rolls back; the loop
\* goes on as it would have (nxt) after a realignment that succeeded
AfterSequenceError(nxt) == nxt

\* update_all_sequences: update_sequence for the next table.  get_primary_key
\* opens the target connection when the manager has none; when that fails it
\* logs and returns no key, and nothing is set.  Nothing is set for a table
\* without primary key either.  An exception of the statements is logged and
\* rolled back, and the loop goes on
FullUpdateSequence ==
  /\ entry \in {"full", "sequences"}
  /\ phase = "sequences"
  /\ \E conn \in BOOLEAN, ok \in BOOLEAN :
       LET nxt == IF tidx = NumTables THEN "end" ELSE "sequences" IN
       /\ "postgres" \in mconn => conn
       /\ IF ~conn
          THEN /\ connFailed' = TRUE
               /\ phase' = nxt
               /\ UNCHANGED <<mconn, seqval, failedAny>>
          ELSE /\ mconn' = mconn \cup {"postgres"}
               /\ UNCHANGED connFailed
               /\ IF ok /\ exists[tidx]
                  THEN /\ seqval' = IF SetvalApplies(hasKey[tidx])
                                    THEN [seqval EXCEPT ![tidx] = SetvalArg(target[tidx])]
                                    ELSE seqval
                       /\ phase' = nxt
                       /\ UNCHANGED failedAny
                  ELSE /\ failedAny' = TRUE
                       /\ phase' = AfterSequenceError(nxt)
                       /\ UNCHANGED seqval
  /\ tidx' = IF phase' = "sequences" THEN tidx + 1 ELSE tidx
  /\ UNCHANGED <<storeVars, cfgVars, seqVars>>
  /\ UNCHANGED <<fetched, inserts, processed, progress, counts, startTarget, wrote>>
  /\ UNCHANGED <<parVars, deltaVars, idxVars>>
  /\ UNCHANGED createTried
  /\ seqTried' = seqTried \cup {tidx}
  /\ setvals' = IF "postgres" \in mconn' /\ exists[tidx] /\ SetvalApplies(hasKey[tidx])
                THEN setvals \cup {tidx}
                ELSE setvals

\* FullMigrationScenario.run: the migration of the current table has
\* returned; go to the next table of the list, with a new executor, or leave
\* the loop and the with block, whose __exit__ closes the connections
ScenarioNextTable ==
  /\ entry = "scenario"
  /\ phase = "migrate"
  /\ pc = "done"
  /\ IF cur < NumTables
     THEN /\ cur' = cur + 1
          /\ pc' = "idle"
          /\ runs' = 0
          /\ counts' = <<>>
          /\ groups' = <<>>
          /\ wpc' = [w \in Workers |-> "none"]
          /\ widx' = [w \in Workers |-> 0]
          /\ wrows' = [w \in Workers |-> <<>>]
          /\ wcount' = [w \in Workers |-> 0]
          /\ wopen' = [w \in Workers |-> {}]
          /\ txAborted' = [w \in Workers |-> FALSE]
          /\ wpending' = [w \in Workers |-> <<>>]
          /\ attempts' = [w \in Workers |-> <<>>]
          /\ wfails' = [w \in Workers |-> <<>>]
          /\ calls' = {}
          /\ collected' = {}
          /\ migrated' = 0
          /\ UNCHANGED <<phase, mconn>>
     ELSE /\ phase' = "end"
          /\ mconn' = {}
          /\ UNCHANGED <<cur, pc, runs, counts, parVars>>
  /\ UNCHANGED <<storeVars, cfgVars, total, offset, rows>>
  /\ UNCHANGED <<fetched, inserts, processed, progress, startTarget, failedAny, wrote>>
  /\ UNCHANGED <<deltaVars, tidx, seqval, connFailed, idxVars, stepVars>>

\* ------------------------------------------------------------------- init
InitHist ==
  /\ fetched = [t \in Tables |-> <<>>]
  /\ inserts = [t \in Tables |-> 0]
  /\ processed = [t \in Tables |-> <<>>]
  /\ progress = [t \in Tables |-> <<>>]
  /\ counts = <<>>
  /\ startTarget = EmptyBag
  /\ failedAny = FALSE
  /\ wrote = 0

\* no delta sync by a chosen id column runs
InitNoBatch ==
  /\ id_column = ""
  /\ src_rows = <<>>
  /\ tgt_keys = {}
  /\ loaded = <<>>

\* create_postgres_table has built nothing
InitNoDdl ==
  /\ is_nullable = ""
  /\ default = <<>>
  /\ extra = ""
  /\ col_def = ""
  /\ table_name = ""
  /\ indexes = <<>>
  /\ unique_keys = <<>>
  /\ non_unique_keys = <<>>
  /\ constraints = <<>>
  /\ idx_stmts = <<>>
  /\ idx_made = <<>>

\* no mapping function has been called
InitNoCall ==
  /\ mysql_type = ""
  /\ given = FALSE
  /\ category = ""
  /\ pg_type = ""
  /\ column = <<>>
  /\ dtype = ""
  /\ InitNoDdl
  /\ InitNoBatch

\* no worker task exists before migrate_table_parallel submits one
InitPool ==
  /\ groups = <<>>
  /\ wpc = [w \in Workers |-> "none"]
  /\ widx = [w \in Workers |-> 0]
  /\ wrows = [w \in Workers |-> <<>>]
  /\ wcount = [w \in Workers |-> 0]
  /\ wopen = [w \in Workers |-> {}]
  /\ txAborted = [w \in Workers |-> FALSE]
  /\ wpending = [w \in Workers |-> <<>>]
  /\ attempts = [w \in Workers |-> <<>>]
  /\ wfails = [w \in Workers |-> <<>>]
  /\ calls = {}
  /\ collected = {}
  /\ migrated = 0
  /\ mysql_ids = {}
  /\ missing = <<>>
  /\ cidx = 0
  /\ startIds = {}
  /\ requested = {}
  /\ inlists = <<>>
  /\ seqval = [t \in Tables |-> 0]
  /\ connFailed = FALSE
  /\ pgIndexes = [t \in Tables |-> {}]
  /\ idxTried = [t \in Tables |-> {}]
  /\ ipos = 0
  /\ createTried = {}
  /\ seqTried = {}
  /\ setvals = {}

\* SingleTableScenario.run on table 1; the other tables are not touched
InitSeq ==
  /\ \E n \in 0..MaxRows : source = [t \in Tables |-> IF t = 1 THEN [i \in 1..n |-> i] ELSE <<>>]
  /\ \E k \in BOOLEAN : hasKey = [t \in Tables |-> k]
  /\ \E c \in IdCats, e \in BOOLEAN, S \in SUBSET Ids :
       /\ idCat = [t \in Tables |-> c]
       /\ exists = [t \in Tables |-> e]
       /\ S # {} => e
       /\ c = "boolean" => S \subseteq {1}
       /\ target = [t \in Tables |-> [v \in Ids |-> IF t = 1 /\ v \in S THEN 1 ELSE 0]]
  /\ writable \in BOOLEAN
  /\ batch_size \in 1..MaxBatch
  /\ threads = 1
  /\ entry = "single"
  /\ srcIndexes = [t \in Tables |-> {}]
  /\ cur = 1
  /\ pc = "idle"
  /\ total = 0
  /\ offset = 0
  /\ rows = <<>>
  /\ runs = 0
  /\ InitHist
  /\ phase = "enter"
  /\ mconn = {}
  /\ tidx = 1
  /\ InitPool
  /\ InitNoCall

NextSeq ==
  \/ ManagerConnect
  \/ MigrateTableStart
  \/ FetchPage
  \/ MigrateRows
  \/ MigrateTableReturn
  \/ MigrateTableAgain
  \/ SourceWrite

SpecSeq == InitSeq /\ [][NextSeq]_vars

\* migrate_table_parallel on table 1
InitPar ==
  /\ \E n \in 0..MaxRows : source = [t \in Tables |-> IF t = 1 THEN [i \in 1..n |-> i] ELSE <<>>]
  /\ \E c \in IdCats : idCat = [t \in Tables |-> c]
  /\ \E k \in BOOLEAN : hasKey = [t \in Tables |-> k]
  /\ \E e \in BOOLEAN : exists = [t \in Tables |-> e]
  /\ target = [t \in Tables |-> EmptyBag]
  /\ writable = FALSE
  /\ batch_size \in 1..MaxBatch
  /\ threads \in 0..MaxThreads
  /\ entry = "parallel"
  /\ srcIndexes = [t \in Tables |-> {}]
  /\ cur = 1
  /\ pc = "idle"
  /\ total = 0
  /\ offset = 0
  /\ rows = <<>>
  /\ runs = 0
  /\ InitHist
  /\ phase = "migrate"
  /\ mconn = BothConns
  /\ tidx = 1
  /\ InitPool
  /\ InitNoCall

NextPar ==
  \/ ParallelStart
  \/ \E w \in Workers :
       \/ WorkerOpenSource(w)
       \/ WorkerOpenTarget(w)
       \/ WorkerFetch(w)
       \/ WorkerLoad(w)
       \/ WorkerReturn(w)
       \/ ParallelCollect(w)
  \/ ParallelReturn

SpecPar == InitPar /\ [][NextPar]_vars

\* what the delta entry points share: table 1 with some rows already loaded
InitDeltaStores ==
  /\ \E n \in 0..MaxRows : source = [t \in Tables |-> IF t = 1 THEN [i \in 1..n |-> i] ELSE <<>>]
  /\ \E k \in BOOLEAN : hasKey = [t \in Tables |-> k]
  /\ \E c \in IdCats, e \in BOOLEAN, S \in SUBSET Ids :
       /\ idCat = [t \in Tables |-> c]
       /\ exists = [t \in Tables |-> e]
       /\ S # {} => e
       /\ c = "boolean" => S \subseteq {1}
       /\ target = [t \in Tables |-> [v \in Ids |-> IF t = 1 /\ v \in S THEN 1 ELSE 0]]
  /\ batch_size \in 1..MaxBatch
  /\ cur = 1
  /\ pc = "idle"
  /\ total = 0
  /\ offset = 0
  /\ rows = <<>>
  /\ runs = 0
  /\ InitHist
  /\ tidx = 1
  /\ InitPool
  /\ InitNoCall

\* DeltaSyncScenario.run(table 1): create_connections, migrate_missing_rows
InitDelta ==
  /\ InitDeltaStores
  /\ writable \in BOOLEAN
  /\ threads = 1
  /\ entry = "delta"
  /\ srcIndexes = [t \in Tables |-> {}]
  /\ phase = "enter"
  /\ mconn = {}

\* migrate_missing_rows_parallel on table 1
InitDeltaPar ==
  /\ InitDeltaStores
  /\ writable = FALSE
  /\ threads \in 1..MaxThreads
  /\ entry = "deltapar"
  /\ srcIndexes = [t \in Tables |-> {}]
  /\ phase = "migrate"
  /\ mconn = BothConns

NextDelta ==
  \/ ManagerConnect
  \/ DeltaScanSource
  \/ DeltaScanTarget
  \/ DeltaFetchChunk
  \/ DeltaMigrateChunk
  \/ DeltaReturn
  \/ SourceWrite

NextDeltaPar ==
  \/ DeltaScanSource
  \/ DeltaScanTarget
  \/ \E w \in Workers :
       \/ DeltaTaskOpenSource(w)
       \/ DeltaTaskOpenTarget(w)
       \/ DeltaTaskFetch(w)
       \/ DeltaTaskLoad(w)
  \/ DeltaJoin

SpecDelta == InitDelta /\ [][NextDelta]_vars

\* the two sequential entry points: migrate_table and migrate_missing_rows
SpecSequential == (InitSeq \/ InitDelta) /\ [][NextSeq \/ NextDelta]_vars

SpecDeltaPar == InitDeltaPar /\ [][NextDeltaPar]_vars

\* what the drivers share: every table of the list has its own rows
InitDriverStores ==
  /\ \E n \in [Tables -> 0..MaxDriverRows] :
       source = [t \in Tables |-> [i \in 1..n[t] |-> i]]
  /\ \E c \in IdCats : idCat = [t \in Tables |-> c]
  /\ \E k \in BOOLEAN : hasKey = [t \in Tables |-> k]
  /\ \E e \in BOOLEAN : exists = [t \in Tables |-> e]
  /\ target = [t \in Tables |-> EmptyBag]
  /\ writable = FALSE
  /\ batch_size \in 1..MaxBatch
  /\ cur = 1
  /\ pc = "idle"
  /\ total = 0
  /\ offset = 0
  /\ rows = <<>>
  /\ runs = 0
  /\ tidx = 1
  /\ InitHist
  /\ InitPool
  /\ InitNoCall

\* MySQLtoPostgreSQLMigrationManager.full_migration
InitFull ==
  /\ InitDriverStores
  /\ threads = 1
  /\ entry = "full"
  /\ \E ti \in Tables, k \in 0..MaxIndexes :
       srcIndexes = [t \in Tables |-> IF t = ti THEN 1..k ELSE {}]
  /\ phase = "create"
  /\ mconn = BothConns

\* FullMigrationScenario.run
InitScenario ==
  /\ InitDriverStores
  /\ threads \in 1..MaxThreads
  /\ entry = "scenario"
  /\ srcIndexes = [t \in Tables |-> {}]
  /\ phase = "enter"
  /\ mconn = {}

NextFull ==
  \/ FullCreateTable
  \/ FullCreateIndex
  \/ MigrateTableStart
  \/ FetchPage
  \/ MigrateRows
  \/ MigrateTableReturn
  \/ FullNextTable
  \/ FullUpdateSequence

NextScenario ==
  \/ ManagerConnect
  \/ MigrateTableStart
  \/ FetchPage
  \/ MigrateRows
  \/ MigrateTableReturn
  \/ ParallelStart
  \/ \E w \in Workers :
       \/ WorkerOpenSource(w)
       \/ WorkerOpenTarget(w)
       \/ WorkerFetch(w)
       \/ WorkerLoad(w)
       \/ WorkerReturn(w)
       \/ ParallelCollect(w)
  \/ ParallelReturn
  \/ ScenarioNextTable

SpecFull == InitFull /\ [][NextFull]_vars

SpecScenario == InitScenario /\ [][NextScenario]_vars

\* update_all_sequences called on a manager whose fetcher is connected and
\* which has no target connection yet; an earlier migration has created and
\* loaded the tables, or has not
InitSequences ==
  /\ \E n \in [Tables -> 0..MaxDriverRows] :
       source = [t \in Tables |-> [i \in 1..n[t] |-> i]]
  /\ \E c \in IdCats : idCat = [t \in Tables |-> c]
  /\ \E k \in BOOLEAN : hasKey = [t \in Tables |-> k]
  /\ \E e \in BOOLEAN : exists = [t \in Tables |-> e]
  /\ target = [t \in Tables |->
                 IF exists[t]
                 THEN execute_values(EmptyBag,
                        transform_data_types(idCat[t], source[t]), hasKey[t])
                 ELSE EmptyBag]
  /\ writable = FALSE
  /\ batch_size \in 1..MaxBatch
  /\ threads = 1
  /\ entry = "sequences"
  /\ srcIndexes = [t \in Tables |-> {}]
  /\ cur = 1
  /\ pc = "idle"
  /\ total = 0
  /\ offset = 0
  /\ rows = <<>>
  /\ runs = 0
  /\ tidx = 1
  /\ phase = "sequences"
  /\ mconn = {"mysql"}
  /\ InitHist
  /\ InitPool
  /\ InitNoCall

NextSequences == FullUpdateSequence

SpecSequences == InitSequences /\ [][NextSequences]_vars

\* the places where a connection is opened: a scenario's create_connections,
\* the workers of migrate_table_parallel, update_all_sequences
SpecConnect ==
  (InitSeq \/ InitPar \/ InitSequences)
    /\ [][NextSeq \/ NextPar \/ NextSequences]_vars

\* every entry point
Init ==
  \/ InitSeq
  \/ InitSequences
  \/ InitPar
  \/ InitDelta
  \/ InitDeltaPar
  \/ InitFull
  \/ InitScenario

Next ==
  \/ NextSeq
  \/ NextSequences
  \/ NextPar
  \/ NextDelta
  \/ NextDeltaPar
  \/ NextFull
  \/ NextScenario

Spec == Init /\ [][Next]_vars

\* ------------------------------------------------------------ type mapping
\* `w in s` on strings
Contains(s, w) ==
  \E i \in 0..(Len(s) - Len(w)) : SubSeq(s, i + 1, i + Len(w)) = w

UpperChars == "ABCDEFGHIJKLMNOPQRSTUVWXYZ"

LowerChars == "abcdefghijklmnopqrstuvwxyz"

\* the character c of the alphabet `from` replaced by the one at the same
\* place of the alphabet `to`; any other character stays what it is
MapChar(c, from, to) ==
  IF \E i \in 1..Len(from) : SubSeq(from, i, i) = c
  THEN LET i == CHOOSE i \in 1..Len(from) : SubSeq(from, i, i) = c
       IN SubSeq(to, i, i)
  ELSE c

\* str.lower()
RECURSIVE Lower(_)
Lower(s) ==
  IF s = "" THEN ""
  ELSE MapChar(SubSeq(s, 1, 1), UpperChars, LowerChars) \o Lower(SubSeq(s, 2, Len(s)))

\* the same type string as a server or a dump in upper case writes it
RECURSIVE Upper(_)
Upper(s) ==
  IF s = "" THEN ""
  ELSE MapChar(SubSeq(s, 1, 1), LowerChars, UpperChars) \o Upper(SubSeq(s, 2, Len(s)))

\* (mysql_type or ""): an absent or empty argument is the empty string
OrEmpty(ty, gv) == IF gv THEN ty ELSE ""

\* a classification that looks for "tinyint" and "(1)" separately
IsBooleanType_both(lo) == Contains(lo, "tinyint") /\ Contains(lo, "(1)")

\* get_mysql_type_category: the first test, "tinyint(1)" in mysql_type
IsBooleanType(lo) == Contains(lo, "tinyint(1)")

\* get_mysql_type_category: the if/elif chain on the lower-cased string
get_mysql_type_category(ty, gv) ==
  LET lo == Lower(OrEmpty(ty, gv)) IN
  IF IsBooleanType(lo) THEN "boolean"
  ELSE IF Contains(lo, "bigint") THEN "bigint"
  ELSE IF Contains(lo, "tinyint") THEN "tinyint"
  ELSE IF Contains(lo, "smallint") \/ Contains(lo, "mediumint") THEN "smallint"
  ELSE IF Contains(lo, "int") THEN "int"
  ELSE IF Contains(lo, "float") \/ Contains(lo, "double")
          \/ Contains(lo, "decimal") \/ Contains(lo, "numeric") THEN "float"
  ELSE IF Contains(lo, "datetime") \/ Contains(lo, "timestamp") THEN "datetime"
  ELSE IF Contains(lo, "date") THEN "date"
  ELSE IF Contains(lo, "time") THEN "time"
  ELSE IF Contains(lo, "year") THEN "year"
  ELSE IF Contains(lo, "blob") \/ Contains(lo, "binary")
          \/ Contains(lo, "varbinary") THEN "binary"
  ELSE IF Contains(lo, "json") THEN "json"
  ELSE IF Contains(lo, "enum") \/ Contains(lo, "set") THEN "enum"
  ELSE IF Contains(lo, "varchar") \/ Contains(lo, "text")
          \/ Contains(lo, "char") THEN "string"
  ELSE "unknown"

\* the closed set of categories
Categories ==
  {"boolean", "bigint", "tinyint", "smallint", "int", "float", "datetime",
   "date", "time", "year", "binary", "json", "enum", "string", "unknown"}

\* the character at position i of s, "" outside of s
CharAt(s, i) == IF i >= 1 /\ i <= Len(s) THEN SubSeq(s, i, i) ELSE ""

\* \d
IsDigit(c) == c \in {"0", "1", "2", "3", "4", "5", "6", "7", "8", "9"}

\* \d+ from position i: the position of the last digit of the run that
\* starts at i (i - 1 when there is no digit at i)
RECURSIVE DigitRunEnd(_, _)
DigitRunEnd(s, i) ==
  IF IsDigit(CharAt(s, i)) THEN DigitRunEnd(s, i + 1) ELSE i - 1

\* \((\d+),(\d+)\) matches at position i
MatchesPrecisionScale(s, i) ==
  LET a == DigitRunEnd(s, i + 1)
      b == DigitRunEnd(s, a + 2)
  IN /\ CharAt(s, i) = "("
     /\ a >= i + 1
     /\ CharAt(s, a + 1) = ","
     /\ b >= a + 2
     /\ CharAt(s, b + 1) = ")"

\* a pattern that takes the precision for the scale as well
PrecisionScale_swapped(s) ==
  IF \E i \in 1..Len(s) : MatchesPrecisionScale(s, i)
  THEN LET i == CHOOSE i \in 1..Len(s) :
                  /\ MatchesPrecisionScale(s, i)
                  /\ \A j \in 1..(i - 1) : ~MatchesPrecisionScale(s, j)
           a == DigitRunEnd(s, i + 1)
       IN <<SubSeq(s, i + 1, a), SubSeq(s, i + 1, a)>>
  ELSE <<>>

\* re.search(r"\((\d+),(\d+)\)", mysql_type): the two groups of the first
\* match, << >> when there is none
PrecisionScale(s) ==
  IF \E i \in 1..Len(s) : MatchesPrecisionScale(s, i)
  THEN LET i == CHOOSE i \in 1..Len(s) :
                  /\ MatchesPrecisionScale(s, i)
                  /\ \A j \in 1..(i - 1) : ~MatchesPrecisionScale(s, j)
           a == DigitRunEnd(s, i + 1)
           b == DigitRunEnd(s, a + 2)
       IN <<SubSeq(s, i + 1, a), SubSeq(s, a + 2, b)>>
  ELSE <<>>

\* \((\d+)\) matches at position i
MatchesLength(s, i) ==
  LET a == DigitRunEnd(s, i + 1)
  IN CharAt(s, i) = "(" /\ a >= i + 1 /\ CharAt(s, a + 1) = ")"

\* re.search(r"\((\d+)\)", mysql_type): the group of the first match
LengthOf(s) ==
  IF \E i \in 1..Len(s) : MatchesLength(s, i)
  THEN LET i == CHOOSE i \in 1..Len(s) :
                  /\ MatchesLength(s, i)
                  /\ \A j \in 1..(i - 1) : ~MatchesLength(s, j)
       IN <<SubSeq(s, i + 1, DigitRunEnd(s, i + 1))>>
  ELSE <<>>

\* map_mysql_to_postgres_type: the last line, `return "TEXT"`
UnknownType == "TEXT"

\* map_mysql_to_postgres_type: the mapping of a type string of category cat
MapCategory(ty, lo, cat) ==
  CASE cat = "boolean" -> "BOOLEAN"
    [] cat \in {"tinyint", "smallint"} -> "SMALLINT"
    [] cat = "bigint" -> "BIGINT"
    [] cat \in {"int", "year"} -> "INTEGER"
    [] cat = "datetime" -> "TIMESTAMP"
    [] cat = "date" -> "DATE"
    [] cat = "time" -> "TIME"
    [] cat = "binary" -> "BYTEA"
    [] cat = "json" -> "JSONB"
    [] cat = "enum" -> "VARCHAR(255)"
    [] cat = "float" ->
         IF Contains(lo, "decimal") \/ Contains(lo, "numeric")
         THEN (IF PrecisionScale(ty) # <<>>
               THEN "NUMERIC(" \o PrecisionScale(ty)[1] \o "," \o PrecisionScale(ty)[2] \o ")"
               ELSE "NUMERIC")
         ELSE IF Contains(lo, "double") THEN "DOUBLE PRECISION"
         ELSE "REAL"
    [] cat = "string" ->
         IF Contains(lo, "char") /\ ~Contains(lo, "varchar")
         THEN (IF LengthOf(ty) # <<>> THEN "CHAR(" \o LengthOf(ty)[1] \o ")"
               ELSE "CHAR(255)")
         ELSE IF Contains(lo, "varchar")
         THEN (IF LengthOf(ty) # <<>> THEN "VARCHAR(" \o LengthOf(ty)[1] \o ")"
               ELSE "VARCHAR(255)")
         ELSE "TEXT"
    [] OTHER -> UnknownType

\* map_mysql_to_postgres_type of the package: (mysql_type or "").lower()
map_mysql_to_postgres_type(ty, gv) ==
  MapCategory(OrEmpty(ty, gv), Lower(OrEmpty(ty, gv)),
              get_mysql_type_category(ty, gv))

\* map_mysql_to_postgres_type of the script: mysql_type.lower() comes first
\* and raises AttributeError when mysql_type is None
script_map_mysql_to_postgres_type(ty, gv) ==
  IF ~gv THEN "<AttributeError>"
  ELSE MapCategory(ty, Lower(ty), get_mysql_type_category(ty, gv))

\* the type names the mapping functions are called with
TypeNames ==
  {"tinyint", "bigint", "smallint", "mediumint", "int", "integer", "float",
   "double", "decimal", "numeric", "datetime", "timestamp", "date", "time",
   "year", "blob", "binary", "varbinary", "json", "enum", "set", "varchar",
   "text", "char", "point", "geometry", "bit", "uuid", ""}

\* what follows the type name
TypeSuffixes ==
  {"", "(1)", "(4)", "(10,2)", "(65,30)", "(10)", " (1)", " unsigned",
   "(1) unsigned", "(10, 2)", "(10,2) unsigned", " unsigned(1)"}

\* enum and set types as the server reports them, with their value lists
EnumTypes ==
  {"enum('a','b')", "enum('internal','external')", "enum('draft','printed')",
   "set('read','update')", "set('daytime','night')", "enum('big','bigint')",
   "set('x')"}

\* the states a mapping function can be called in: a type string in lower or
\* in upper case, or no type at all
InitTypes ==
  /\ source = [t \in Tables |-> <<>>]
  /\ idCat = [t \in Tables |-> "int"]
  /\ hasKey = [t \in Tables |-> TRUE]
  /\ exists = [t \in Tables |-> FALSE]
  /\ target = [t \in Tables |-> EmptyBag]
  /\ writable = FALSE
  /\ batch_size = 1
  /\ threads = 1
  /\ entry \in {"mapping", "script_mapping"}
  /\ srcIndexes = [t \in Tables |-> {}]
  /\ cur = 1
  /\ pc = "idle"
  /\ total = 0
  /\ offset = 0
  /\ rows = <<>>
  /\ runs = 0
  /\ InitHist
  /\ phase = "idle"
  /\ mconn = {}
  /\ tidx = 1
  /\ InitPool
  /\ \/ /\ given = TRUE
        /\ \E n \in TypeNames, x \in TypeSuffixes, up \in BOOLEAN :
             mysql_type = IF up THEN Upper(n \o x) ELSE n \o x
     \/ /\ given = TRUE
        /\ mysql_type \in EnumTypes
     \/ /\ given = FALSE
        /\ mysql_type = ""
  /\ category = ""
  /\ pg_type = ""
  /\ column = <<>>
  /\ dtype = ""
  /\ InitNoDdl
  /\ InitNoBatch

\* get_mysql_type_category(mysql_type)
Classify ==
  /\ entry = "mapping"
  /\ category = ""
  /\ category' = get_mysql_type_category(mysql_type, given)
  /\ UNCHANGED <<mysql_type, given, pg_type, column, dtype>>
  /\ UNCHANGED <<storeVars, batch_size, threads, entry, ddlVars, colVars>>
  /\ UNCHANGED <<seqVars, histVars, parVars, deltaVars, drvVars>>

\* map_mysql_to_postgres_type(mysql_type) of the package
MapType ==
  /\ entry = "mapping"
  /\ pg_type = ""
  /\ pg_type' = map_mysql_to_postgres_type(mysql_type, given)
  /\ UNCHANGED <<mysql_type, given, category, column, dtype>>
  /\ UNCHANGED <<storeVars, batch_size, threads, entry, ddlVars, colVars>>
  /\ UNCHANGED <<seqVars, histVars, parVars, deltaVars, drvVars>>

\* map_mysql_to_postgres_type(mysql_type) of the script
ScriptMapType ==
  /\ entry = "script_mapping"
  /\ pg_type = ""
  /\ pg_type' = script_map_mysql_to_postgres_type(mysql_type, given)
  /\ UNCHANGED <<mysql_type, given, category, column, dtype>>
  /\ UNCHANGED <<storeVars, batch_size, threads, entry, ddlVars, colVars>>
  /\ UNCHANGED <<seqVars, histVars, parVars, deltaVars, drvVars>>

NextTypes ==
  \/ Classify
  \/ MapType
  \/ ScriptMapType

SpecTypes == InitTypes /\ [][NextTypes]_vars

\* ----------------------------------------------------------- value coercion
\* the most cells one column of a batch has
MaxColumn == 2

\* a missing cell (None / NaN)
Null == <<>>

\* An integer cell v is the pair <<hi, lo>> with v = hi * 65536 + lo and
\* lo in 0..65535, so that values beyond 32 bits keep their magnitude.
\* 2_147_483_647
Int32Max == <<32767, 65535>>

\* -2_147_483_648
Int32Min == <<-32768, 0>>

\* the cells of the model: the ends and the middle of what a signed and an
\* unsigned INT column hold, and 5_000_000_000
IntCells ==
  {Int32Min, <<-1, 65535>>, <<0, 0>>, <<0, 100>>, Int32Max, <<32768, 0>>,
   <<65535, 65535>>, <<76293, 61952>>}

\* a > b on integer cells
Greater(a, b) == a[1] > b[1] \/ (a[1] = b[1] /\ a[2] > b[2])

\* data[column].isnull().all()
AllNull(col) == \A i \in 1..Len(col) : col[i] = Null

\* the cells that are not missing
NotNull(col) == {col[i] : i \in {j \in 1..Len(col) : col[j] # Null}}

\* data[column].max(skipna=True)
ColumnMax(col) ==
  CHOOSE v \in NotNull(col) : \A u \in NotNull(col) : ~Greater(u, v)

\* max_value > 4_294_967_295
ExceedsInt32_unsigned(max_value) == Greater(max_value, <<65535, 65535>>)

\* pd.notna(max_value) and max_value > 2_147_483_647
ExceedsInt32(max_value) == Greater(max_value, Int32Max)

\* the dtype transform_data_types leaves the column with; a column it does
\* not touch keeps the dtype "object" it was fetched with
CoercedDtype(col, ty) ==
  LET cat == get_mysql_type_category(ty, TRUE) IN
  IF AllNull(col) THEN "object"
  ELSE IF cat = "boolean" THEN "object"
  ELSE IF cat = "bigint" THEN "Int64"
  ELSE IF cat = "int"
    THEN IF ExceedsInt32(ColumnMax(col)) THEN "Int64" ELSE "Int32"
  ELSE IF cat \in {"tinyint", "smallint"} THEN "Int32"
  ELSE IF cat = "float" THEN "float64"
  ELSE IF cat = "datetime" THEN "datetime64[ns]"
  ELSE "object"

\* v is a value of the integer dtype d; a cell of the model has |hi| < 2^31
\* and so always lies within 64 bits
FitsDtype(v, d) ==
  IF d = "Int32" THEN ~Greater(v, Int32Max) /\ ~Greater(Int32Min, v)
  ELSE d = "Int64"

\* the column types of the model whose category is int
IntTypes == {"int", "int(11)", "int(10) unsigned", "integer", "INT"}

\* transform_data_types is called on one column of a batch
InitCoerce ==
  /\ source = [t \in Tables |-> <<>>]
  /\ idCat = [t \in Tables |-> "int"]
  /\ hasKey = [t \in Tables |-> TRUE]
  /\ exists = [t \in Tables |-> FALSE]
  /\ target = [t \in Tables |-> EmptyBag]
  /\ writable = FALSE
  /\ batch_size = 1
  /\ threads = 1
  /\ entry = "coerce"
  /\ srcIndexes = [t \in Tables |-> {}]
  /\ cur = 1
  /\ pc = "idle"
  /\ total = 0
  /\ offset = 0
  /\ rows = <<>>
  /\ runs = 0
  /\ InitHist
  /\ phase = "idle"
  /\ mconn = {}
  /\ tidx = 1
  /\ InitPool
  /\ given = TRUE
  /\ mysql_type \in IntTypes
  /\ category = ""
  /\ pg_type = ""
  /\ \E n \in 0..MaxColumn : column \in [1..n -> IntCells \cup {Null}]
  /\ dtype = ""
  /\ InitNoDdl
  /\ InitNoBatch

\* transform_data_types(data, column_types) for the one column
TransformColumn ==
  /\ entry = "coerce"
  /\ dtype = ""
  /\ category' = get_mysql_type_category(mysql_type, given)
  /\ dtype' = CoercedDtype(column, mysql_type)
  /\ UNCHANGED <<mysql_type, given, pg_type, column>>
  /\ UNCHANGED <<storeVars, batch_size, threads, entry, ddlVars, colVars>>
  /\ UNCHANGED <<seqVars, histVars, parVars, deltaVars, drvVars>>

NextCoerce == TransformColumn

SpecCoerce == InitCoerce /\ [][NextCoerce]_vars

\* -------------------------------------------------------- table definition
\* no store is touched and no transfer runs while a definition is built
InitStoresAtRest ==
  /\ source = [t \in Tables |-> <<>>]
  /\ idCat = [t \in Tables |-> "int"]
  /\ hasKey = [t \in Tables |-> TRUE]
  /\ exists = [t \in Tables |-> FALSE]
  /\ target = [t \in Tables |-> EmptyBag]
  /\ writable = FALSE
  /\ batch_size = 1
  /\ threads = 1
  /\ srcIndexes = [t \in Tables |-> {}]
  /\ cur = 1
  /\ pc = "idle"
  /\ total = 0
  /\ offset = 0
  /\ rows = <<>>
  /\ runs = 0
  /\ InitHist
  /\ phase = "idle"
  /\ mconn = {}
  /\ tidx = 1
  /\ InitPool

\* "auto_increment" in str(extra).lower()
IsAutoIncrement(ex) == Contains(Lower(ex), "auto_increment")

\* a NOT NULL test that does not look at auto_increment
NotNullApplies_always(nullable, ex) == nullable = "NO"

\* is_nullable == "NO" and "auto_increment" not in str(extra).lower()
NotNullApplies(nullable, ex) == nullable = "NO" /\ ~IsAutoIncrement(ex)

\* a default test that is the else branch of the NOT NULL test
DefaultApplies_elif(nullable, dflt, ex) ==
  /\ ~(nullable = "NO")
  /\ dflt # <<>> /\ dflt[1] # "NULL" /\ ~IsAutoIncrement(ex)

\* default is not None and default != "NULL" and "auto_increment" not in
\* str(extra).lower(): an `if` of its own, after the NOT NULL `if`
DefaultApplies(nullable, dflt, ex) ==
  dflt # <<>> /\ dflt[1] # "NULL" /\ ~IsAutoIncrement(ex)

\* the default-formatting rules
DefaultClause(pg, d) ==
  IF Contains(Upper(d), "CURRENT_TIMESTAMP") THEN " DEFAULT CURRENT_TIMESTAMP"
  ELSE IF pg \in {"INTEGER", "BIGINT", "SMALLINT", "REAL", "DOUBLE PRECISION"}
          \/ Contains(pg, "NUMERIC")
    THEN " DEFAULT " \o d
  ELSE IF pg = "BOOLEAN" THEN " DEFAULT " \o d
  ELSE " DEFAULT '" \o d \o "'"

\* create_postgres_table: the body of `for col in columns`
ColumnDef(col_name, col_type, nullable, dflt, ex) ==
  LET pg == map_mysql_to_postgres_type(col_type, TRUE)
      typed == IF IsAutoIncrement(ex)
               THEN (IF Contains(Lower(col_type), "bigint")
                     THEN col_name \o " BIGSERIAL"
                     ELSE col_name \o " SERIAL")
               ELSE col_name \o " " \o pg
      notnull == IF NotNullApplies(nullable, ex) THEN typed \o " NOT NULL" ELSE typed
  IN IF DefaultApplies(nullable, dflt, ex)
     THEN notnull \o DefaultClause(pg, dflt[1])
     ELSE notnull

\* the name of the one column of the model
ColumnName == "c"

\* the column types, defaults and extras of the model
ColumnTypes == {"int(11)", "bigint(20)", "BIGINT UNSIGNED", "varchar(40)",
                "tinyint(1)", "timestamp", "decimal(10,2)"}

ColumnDefaults == {<<>>, <<"NULL">>, <<"0">>, <<"CURRENT_TIMESTAMP">>, <<"new">>}

ColumnExtras == {"", "auto_increment", "AUTO_INCREMENT",
                 "on update CURRENT_TIMESTAMP", "DEFAULT_GENERATED"}

\* create_postgres_table is about to define one column of DESCRIBE
InitColumnDef ==
  /\ InitStoresAtRest
  /\ entry = "columndef"
  /\ given = TRUE
  /\ mysql_type \in ColumnTypes
  /\ category = ""
  /\ pg_type = ""
  /\ column = <<>>
  /\ dtype = ""
  /\ is_nullable \in {"YES", "NO"}
  /\ default \in ColumnDefaults
  /\ extra \in ColumnExtras
  /\ col_def = ""
  /\ table_name = ""
  /\ indexes = <<>>
  /\ unique_keys = <<>>
  /\ non_unique_keys = <<>>
  /\ constraints = <<>>
  /\ idx_stmts = <<>>
  /\ idx_made = <<>>
  /\ InitNoBatch

\* one pass of `for col in columns`
DefineColumn ==
  /\ entry = "columndef"
  /\ col_def = ""
  /\ pg_type' = map_mysql_to_postgres_type(mysql_type, given)
  /\ col_def' = ColumnDef(ColumnName, mysql_type, is_nullable, default, extra)
  /\ UNCHANGED <<mysql_type, given, category, column, dtype>>
  /\ UNCHANGED <<is_nullable, default, extra, table_name, indexes, unique_keys,
                 non_unique_keys, constraints, idx_stmts, idx_made>>
  /\ UNCHANGED <<storeVars, batch_size, threads, entry, colVars>>
  /\ UNCHANGED <<seqVars, histVars, parVars, deltaVars, drvVars>>

NextColumnDef == DefineColumn

SpecColumnDef == InitColumnDef /\ [][NextColumnDef]_vars

\* ------------------------------------------------------- index definitions
\* raw_idx_name[:63]: the target store's identifier length limit
IdentifierLimit == 63

\* s[:n]
Truncate(s, n) == SubSeq(s, 1, Min(n, Len(s)))

\* a run of n letters, to build long identifiers
RECURSIVE Pad(_)
Pad(n) == IF n = 0 THEN "" ELSE "x" \o Pad(n - 1)

\* the table names and the index names (idx[2]) of the model: short ones
\* and two names of 60 characters that differ in their last character
TableNames == {"t", "orders"}

KeyNames == {"PRIMARY", "email", Pad(58) \o "_a", Pad(58) \o "_b"}

\* the column lists of an index
IndexColumns == {<<"a">>, <<"b">>, <<"a", "b">>, <<"b", "a">>}

\* an index of the source table; the primary key is a unique index
IndexDefs ==
  {d \in [non_unique : {0, 1}, key_name : KeyNames, cols : IndexColumns] :
     d.key_name = "PRIMARY" => d.non_unique = 0}

\* the rows SHOW INDEX reports for one index: one row per column, all with
\* the index's Non_unique and Key_name
IndexRows(d) ==
  [i \in 1..Len(d.cols) |->
     [non_unique |-> d.non_unique, key_name |-> d.key_name,
      column_name |-> d.cols[i]]]

\* the rows SHOW INDEX reports for a list of indexes
RECURSIVE ShowIndex(_)
ShowIndex(ds) ==
  IF ds = <<>> THEN <<>> ELSE IndexRows(Head(ds)) \o ShowIndex(Tail(ds))

\* if key_name not in keys: keys[key_name] = []; keys[key_name].append(c)
AppendTo(keys, k, c) ==
  IF \E i \in 1..Len(keys) : keys[i][1] = k
  THEN [i \in 1..Len(keys) |->
          IF keys[i][1] = k THEN <<k, Append(keys[i][2], c)>> ELSE keys[i]]
  ELSE Append(keys, <<k, <<c>>>>)

\* a test that takes the primary key for a unique index like any other
IsUniqueRow_primary(idx) == idx.non_unique = 0

\* non_unique == 0 and key_name != "PRIMARY"
IsUniqueRow(idx) == idx.non_unique = 0 /\ idx.key_name # "PRIMARY"

\* the elif: key_name != "PRIMARY"
IsPlainRow(idx) == ~IsUniqueRow(idx) /\ idx.key_name # "PRIMARY"

\* the dict unique_keys after `for idx in indexes`
RECURSIVE UniqueKeys(_)
UniqueKeys(idxs) ==
  IF idxs = <<>> THEN <<>>
  ELSE LET before == UniqueKeys(SubSeq(idxs, 1, Len(idxs) - 1))
           idx == idxs[Len(idxs)]
       IN IF IsUniqueRow(idx) THEN AppendTo(before, idx.key_name, idx.column_name)
          ELSE before

\* the dict non_unique_keys after `for idx in indexes`
RECURSIVE NonUniqueKeys(_)
NonUniqueKeys(idxs) ==
  IF idxs = <<>> THEN <<>>
  ELSE LET before == NonUniqueKeys(SubSeq(idxs, 1, Len(idxs) - 1))
           idx == idxs[Len(idxs)]
       IN IF IsPlainRow(idx) THEN AppendTo(before, idx.key_name, idx.column_name)
          ELSE before

\* raw_idx_name = f"{table_name}_{key_name}_idx"; idx_name = raw_idx_name[:63]
IndexName(tbl, key) == Truncate(tbl \o "_" \o key \o "_idx", IdentifierLimit)

\* the CREATE INDEX IF NOT EXISTS statements of the loop over non_unique_keys
IndexStatements(tbl, keys) ==
  [i \in 1..Len(keys) |-> <<IndexName(tbl, keys[i][1]), keys[i][2]>>]

\* what a list of CREATE INDEX IF NOT EXISTS statements creates when the
\* statements in `failing` raise: a statement whose index name exists
\* already creates nothing and raises nothing
RECURSIVE CreateIfNotExists(_, _)
CreateIfNotExists(stmts, failing) ==
  IF stmts = <<>> THEN <<>>
  ELSE LET n == Len(stmts)
           before == CreateIfNotExists(SubSeq(stmts, 1, n - 1), failing)
       IN IF n \in failing \/ \E i \in 1..Len(before) : before[i][1] = stmts[n][1]
          THEN before
          ELSE Append(before, stmts[n])

\* create_postgres_table is about to read the indexes of one table
InitIndexDdl ==
  /\ InitStoresAtRest
  /\ entry = "indexddl"
  /\ mysql_type = ""
  /\ given = FALSE
  /\ category = ""
  /\ pg_type = ""
  /\ column = <<>>
  /\ dtype = ""
  /\ is_nullable = ""
  /\ default = <<>>
  /\ extra = ""
  /\ col_def = ""
  /\ table_name \in TableNames
  /\ \E n \in 0..MaxIndexes :
       \E ds \in [1..n -> IndexDefs] :
         /\ \A i, j \in 1..n : i # j => ds[i].key_name # ds[j].key_name
         /\ indexes = ShowIndex(ds)
  /\ unique_keys = <<>>
  /\ non_unique_keys = <<>>
  /\ constraints = <<>>
  /\ idx_stmts = <<>>
  /\ idx_made = <<>>
  /\ InitNoBatch

\* create_postgres_table from `for idx in indexes` on: the two dicts, the
\* UNIQUE constraints of CREATE TABLE, the statement itself (an exception is
\* rolled back and re-raised) and the loop of CREATE INDEX IF NOT EXISTS
\* statements, each of which may fail on its own
DefineIndexes ==
  /\ entry = "indexddl"
  /\ pc = "idle"
  /\ unique_keys' = UniqueKeys(indexes)
  /\ non_unique_keys' = NonUniqueKeys(indexes)
  /\ constraints' = [i \in 1..Len(UniqueKeys(indexes)) |-> UniqueKeys(indexes)[i][2]]
  /\ \E ok \in BOOLEAN :
       IF ok
       THEN /\ pc' = "done"
            /\ idx_stmts' = IndexStatements(table_name, NonUniqueKeys(indexes))
            /\ \E failing \in SUBSET (1..Len(NonUniqueKeys(indexes))) :
                 idx_made' = CreateIfNotExists(
                               IndexStatements(table_name, NonUniqueKeys(indexes)),
                               failing)
       ELSE /\ pc' = "raised"
            /\ idx_stmts' = <<>>
            /\ idx_made' = <<>>
  /\ UNCHANGED <<mapVars, is_nullable, default, extra, col_def, table_name, indexes>>
  /\ UNCHANGED <<storeVars, batch_size, threads, entry, colVars>>
  /\ UNCHANGED <<cur, total, offset, rows, runs>>
  /\ UNCHANGED <<histVars, parVars, deltaVars, drvVars>>

NextIndexDdl == DefineIndexes

SpecIndexDdl == InitIndexDdl /\ [][NextIndexDdl]_vars

\* ------------------------------------- parallel delta sync by an id column
\* the columns of the source table: every row is an (id, code) pair
IdColumns == {"id", "code"}

ColumnIndex(c) == IF c = "id" THEN 1 ELSE 2

\* SELECT {id_column} FROM t, as a set
ColumnValues(rws, c) == {rws[i][ColumnIndex(c)] : i \in 1..Len(rws)}

\* SELECT * FROM t WHERE {c} IN (ids)
SelectWhereIn(rws, c, ids) ==
  SelectSeq(rws, LAMBDA r : r[ColumnIndex(c)] \in Range(ids))

\* def migrate_batch(table_name, batch_ids, id_column="id")
DefaultIdColumn == "id"

\* the column migrate_batch matches on: the package's migrate_batch is a
\* closure over id_column; the script submits migrate_batch(table_name, batch)
\* and leaves its id_column parameter at the default
BatchColumn(e, idc) == IF e = "script_deltacolumn" THEN DefaultIdColumn ELSE idc

\* tables of n rows with the ids 1..n and unique codes
SourceTables ==
  UNION {{[i \in 1..n |-> <<i, f[i]>>] :
            f \in {g \in [1..n -> Ids] : \A i, j \in 1..n : g[i] = g[j] => i = j}} :
         n \in 0..MaxRows}

\* the tasks that have returned
TasksDone == {loaded[i].k : i \in 1..Len(loaded)}

\* migrate_missing_rows_parallel(table, id_column) of the package or the script
InitDeltaColumn ==
  /\ source = [t \in Tables |-> <<>>]
  /\ idCat = [t \in Tables |-> "int"]
  /\ hasKey = [t \in Tables |-> TRUE]
  /\ exists = [t \in Tables |-> TRUE]
  /\ target = [t \in Tables |-> EmptyBag]
  /\ writable = FALSE
  /\ batch_size \in 1..MaxBatch
  /\ threads = MaxThreads
  /\ srcIndexes = [t \in Tables |-> {}]
  /\ cur = 1
  /\ pc = "idle"
  /\ total = 0
  /\ offset = 0
  /\ rows = <<>>
  /\ runs = 0
  /\ InitHist
  /\ phase = "idle"
  /\ mconn = {}
  /\ tidx = 1
  /\ InitPool
  /\ mysql_type = ""
  /\ given = FALSE
  /\ category = ""
  /\ pg_type = ""
  /\ column = <<>>
  /\ dtype = ""
  /\ InitNoDdl
  /\ entry \in {"deltacolumn", "script_deltacolumn"}
  /\ id_column \in IdColumns
  /\ src_rows \in SourceTables
  /\ tgt_keys \in SUBSET Ids
  /\ loaded = <<>>

\* missing_ids = get_missing_ids(..., table_name, id_column)
GetMissingIdsBy ==
  /\ entry \in {"deltacolumn", "script_deltacolumn"}
  /\ pc = "idle"
  /\ missing' = MissingIds(ColumnValues(src_rows, id_column), tgt_keys)
  /\ pc' = IF missing' = <<>> THEN "done" ELSE "tasks"
  /\ UNCHANGED <<cur, total, offset, rows, runs>>
  /\ UNCHANGED <<mysql_ids, cidx, startIds, requested, inlists>>
  /\ UNCHANGED <<groups, wpc, widx, wrows, wcount, wopen, txAborted, wpending,
                 attempts, wfails, calls, collected, migrated>>
  /\ UNCHANGED <<storeVars, cfgVars, histVars, drvVars>>

\* one task migrate_batch(batch) of the pool: fetch the rows of the chunk,
\* insert them
MigrateBatchBy(k) ==
  /\ entry \in {"deltacolumn", "script_deltacolumn"}
  /\ pc = "tasks"
  /\ k \notin TasksDone
  /\ LET batch_ids == Chunk(missing, k, batch_size)
         fetched_rows == SelectWhereIn(src_rows, BatchColumn(entry, id_column), batch_ids)
     IN /\ loaded' = Append(loaded, [k |-> k, batch_ids |-> batch_ids,
                                     rows |-> fetched_rows])
        /\ tgt_keys' = tgt_keys \cup ColumnValues(fetched_rows, id_column)
  /\ UNCHANGED <<id_column, src_rows>>
  /\ UNCHANGED <<storeVars, batch_size, threads, entry, mapVars, ddlVars>>
  /\ UNCHANGED <<seqVars, histVars, parVars, deltaVars, drvVars>>

\* `for future in futures: future.result()` has seen every task
JoinBatches ==
  /\ entry \in {"deltacolumn", "script_deltacolumn"}
  /\ pc = "tasks"
  /\ TasksDone = 0..(NumChunks(missing, batch_size) - 1)
  /\ pc' = "done"
  /\ UNCHANGED <<cur, total, offset, rows, runs>>
  /\ UNCHANGED <<storeVars, cfgVars, histVars, parVars, deltaVars, drvVars>>

NextDeltaColumn ==
  \/ GetMissingIdsBy
  \/ \E k \in 0..(NumChunks(missing, batch_size) - 1) : MigrateBatchBy(k)
  \/ JoinBatches

SpecDeltaColumn == InitDeltaColumn /\ [][NextDeltaColumn]_vars

\* ------------------------------ sequential and parallel transfer compared
\* migrate_table (entry "single", behind the scenario's create_connections)
\* or migrate_table_parallel (entry "parallel") on table 1, from the same
\* stores; nothing writes to the source while the table is migrated
InitEquiv ==
  /\ \E n \in 0..MaxRows : source = [t \in Tables |-> IF t = 1 THEN [i \in 1..n |-> i] ELSE <<>>]
  /\ \E k \in BOOLEAN : hasKey = [t \in Tables |-> k]
  /\ \E c \in IdCats, e \in BOOLEAN, S \in SUBSET Ids :
       /\ idCat = [t \in Tables |-> c]
       /\ exists = [t \in Tables |-> e]
       /\ S # {} => e
       /\ c = "boolean" => S \subseteq {1}
       /\ target = [t \in Tables |-> [v \in Ids |-> IF t = 1 /\ v \in S THEN 1 ELSE 0]]
  /\ writable = FALSE
  /\ batch_size \in 1..MaxBatch
  /\ \/ entry = "single" /\ threads = 1 /\ phase = "enter" /\ mconn = {}
     \/ entry = "parallel" /\ threads \in 0..MaxThreads /\ phase = "migrate"
        /\ mconn = BothConns
  /\ srcIndexes = [t \in Tables |-> {}]
  /\ cur = 1
  /\ pc = "idle"
  /\ total = 0
  /\ offset = 0
  /\ rows = <<>>
  /\ runs = 0
  /\ InitHist
  /\ tidx = 1
  /\ InitPool
  /\ InitNoCall

\* one call of either function
NextEquiv ==
  \/ ManagerConnect
  \/ MigrateTableStart
  \/ FetchPage
  \/ MigrateRows
  \/ MigrateTableReturn
  \/ NextPar

SpecEquiv == InitEquiv /\ [][NextEquiv]_vars

\* ================================================================= claims
CeilDiv(a, b) == (a + b - 1) \div b

IsPagePrefix(f, b) == \A i \in 1..Len(f) : f[i] = (i - 1) * b

\* C1: a sequential full migration into an empty target, with no concurrent
\* source write and no failing batch, ends with exactly N rows in the target
C1_ExactlyNRows ==
  (entry = "single" /\ pc = "done" /\ runs = 1 /\ startTarget = EmptyBag
     /\ wrote = 0 /\ ~failedAny)
  => RowCount(target[cur]) = total

\* C3 as stated: for any table, the second full migration of an unmodified
\* source leaves the row count the first one produced
C3_SameCountAnyTable ==
  (entry = "single" /\ Len(counts) = 2 /\ wrote = 0) => counts[2] = counts[1]

\* C3 amended: for a table with a primary key, once a first full migration of
\* an unmodified source has returned, the target row count stays what it was
\* at that return all through the second migration (also one that fails)
C3_SameCountKeyedTable ==
  (entry = "single" /\ runs = 2 /\ Len(counts) >= 1 /\ wrote = 0 /\ hasKey[cur])
  => RowCount(target[cur]) = counts[1]

C3_Witness ==
  /\ entry = "single" /\ runs = 2 /\ pc = "done" /\ wrote = 0 /\ hasKey[cur]
  /\ Len(counts) = 2 /\ counts[1] >= 2 /\ inserts[cur] >= 2

\* C9 as stated: every sequential migration, however it ends, has performed
\* exactly ceil(N/B) page fetches at offsets 0, B, 2B, ...
C9_AlwaysAllPages ==
  (entry = "single" /\ pc \in {"done", "raised"})
  => /\ Len(fetched[cur]) = CeilDiv(total, batch_size)
     /\ IsPagePrefix(fetched[cur], batch_size)

\* C9 amended: the page fetches of a sequential migration are at offsets
\* 0, B, 2B, ... in strictly increasing order, never more than ceil(N/B) of
\* them, and exactly ceil(N/B) when migrate_table returns
C9_PagesInOrder ==
  entry = "single"
  => /\ IsPagePrefix(fetched[cur], batch_size)
     /\ Len(fetched[cur]) <= CeilDiv(total, batch_size)
     /\ pc = "done" => Len(fetched[cur]) = CeilDiv(total, batch_size)

C9_Witness ==
  /\ entry = "single" /\ pc = "done" /\ Len(fetched[cur]) >= 2
  /\ total > batch_size /\ total % batch_size # 0

\* C2: after a delta sync has returned, every id that was in the source when
\* the sync started is in the target (checked for a source nobody wrote to)
C2_TargetHasStartIds ==
  (entry \in {"delta", "deltapar"} /\ pc = "done" /\ wrote = 0)
  => startIds \subseteq BagIds(target[cur])

\* C4: every store call of a worker task goes through the connection pair
\* that this task opened itself
C4_OwnConnectionsOnly == \A c \in calls : c.conn = c.who

\* the offsets of worker w's list up to, and without, position i
Before(w, i) == SubSeq(groups[w], 1, Min(i, Len(groups[w]) + 1) - 1)

\* C5: a worker that has opened its connections never raises: an exception
\* at one offset is caught and the worker goes on to every remaining offset
\* of its list, in order, and returns
C5_WorkerContinues ==
  entry = "parallel" =>
    \A w \in Workers :
      /\ wpc[w] = "raised" => (attempts[w] = <<>> /\ wfails[w] = <<>>)
      /\ wpc[w] = "fetch" => attempts[w] = Before(w, widx[w])
      /\ wpc[w] = "load" => attempts[w] = Before(w, widx[w] + 1)
      /\ wpc[w] = "returned" => attempts[w] = groups[w]

C5_Witness ==
  /\ entry = "parallel"
  /\ \E w \in Workers :
       /\ wpc[w] = "returned"
       /\ Len(groups[w]) >= 2
       /\ wfails[w] = <<groups[w][1]>>
       /\ wcount[w] > 0

\* C6 as stated: in sequential mode the failure of one page or id-chunk is
\* followed by the next offset or chunk of the same table
C6_ContinuesAfterFailure ==
  [][(entry \in {"single", "delta"} /\ pc \in {"rows", "chunkrows"}
        /\ ~failedAny /\ failedAny')
     => pc' \in {"loop", "chunk"}]_vars

\* C6 amended: in sequential mode the failure of one page or id-chunk is
\* re-raised: migrate_table / migrate_missing_rows ends there, the target
\* keeps what was committed before, and no later page or chunk is fetched
C6_StopsAtFailure ==
  [][(entry \in {"single", "delta"})
     => /\ (~failedAny /\ failedAny') => (pc' = "raised" /\ target' = target)
        /\ pc = "raised" => (pc' = "raised" /\ target' = target
                               /\ fetched' = fetched /\ cidx' = cidx)]_vars

C6_Witness ==
  /\ entry = "single" /\ pc = "raised" /\ failedAny /\ exists[cur]
  /\ inserts[cur] = 1
  /\ Len(fetched[cur]) = 2
  /\ CeilDiv(total, batch_size) = 3

\* C7: for total >= 1 and threads >= 1 the scheduler creates exactly
\* min(threads, number of offsets) workers, each with at least one offset
C7_WorkerCount ==
  (entry = "parallel" /\ pc \in {"join", "done"} /\ total >= 1 /\ threads >= 1)
  => /\ Cardinality({w \in Workers : wpc[w] # "none"})
          = Min(threads, CeilDiv(total, batch_size))
     /\ Len(groups) = Min(threads, CeilDiv(total, batch_size))
     /\ \A g \in 1..Len(groups) : groups[g] # <<>>

C7_Witness ==
  /\ entry = "parallel" /\ pc = "done"
  /\ total >= 1 /\ threads > CeilDiv(total, batch_size)
  /\ Cardinality({w \in Workers : wpc[w] = "returned"})
       = CeilDiv(total, batch_size)

\* the i-th offset (i = 0, 1, ...) of the table
OffsetAt(i) == i * batch_size

\* how many times the page at offset o has been attempted by any worker
RECURSIVE CountIn(_, _)
CountIn(sq, o) ==
  IF sq = <<>> THEN 0
  ELSE (IF Head(sq) = o THEN 1 ELSE 0) + CountIn(Tail(sq), o)

RECURSIVE SumAttempts(_, _)
SumAttempts(n, o) ==
  IF n = 0 THEN 0 ELSE CountIn(attempts[n], o) + SumAttempts(n - 1, o)

Attempted(o) == SumAttempts(MaxTasks, o)

\* groups is the round-robin partition of the offset list
IsRoundRobin ==
  LET nw == Len(groups)
      no == CeilDiv(total, batch_size)
  IN /\ \A i \in 0..(no - 1) :
          \E k \in 1..Len(groups[(i % nw) + 1]) :
             groups[(i % nw) + 1][k] = OffsetAt(i)
     /\ \A g \in 1..nw : \A k \in 1..Len(groups[g]) :
          groups[g][k] = OffsetAt((k - 1) * nw + g - 1)
     /\ \A g \in 1..nw : Len(groups[g]) = Cardinality({i \in 0..(no - 1) : i % nw = g - 1})

\* C8 as stated: offsets are assigned round-robin and, when the run is over,
\* every offset has been attempted exactly once
C8_EveryOffsetOnce ==
  (entry = "parallel" /\ pc = "done" /\ total >= 1)
  => /\ IsRoundRobin
     /\ \A i \in 0..(CeilDiv(total, batch_size) - 1) : Attempted(OffsetAt(i)) = 1

\* C8 amended: offsets are assigned round-robin; no offset is ever attempted
\* twice; when the run is over, every offset of a worker that opened its two
\* connections has been attempted exactly once, and no offset of a worker
\* whose connection could not be opened has been attempted
C8_RoundRobinOnce ==
  (entry = "parallel" /\ pc \in {"join", "done"} /\ total >= 1)
  => /\ IsRoundRobin
     /\ \A i \in 0..(CeilDiv(total, batch_size) - 1) : Attempted(OffsetAt(i)) <= 1
     /\ pc = "done" =>
          \A g \in 1..Len(groups) : \A k \in 1..Len(groups[g]) :
             Attempted(groups[g][k]) = (IF wpc[g] = "returned" THEN 1 ELSE 0)

C8_Witness ==
  /\ entry = "parallel" /\ pc = "done"
  /\ Len(groups) = 2 /\ Len(groups[1]) = 2
  /\ wpc[1] = "returned" /\ wpc[2] = "returned"
  /\ wfails[1] # <<>>
  /\ Attempted(OffsetAt(2)) = 1

\* C10: when a full migration with no failing store call is through with a
\* table that has 0 rows, the target table exists, no page was fetched, no
\* batch was inserted and no error was raised
C10_EmptyTable ==
  (entry \in {"full", "scenario"} /\ phase = "migrate" /\ pc \in {"done", "raised"}
     /\ Len(source[cur]) = 0 /\ ~failedAny)
  => /\ pc = "done"
     /\ exists[cur]
     /\ fetched[cur] = <<>>
     /\ \A w \in Workers : attempts[w] = <<>>
     /\ inserts[cur] = 0

\* C11: once the rows of a table with a primary key have been loaded into an
\* empty target table and its sequence has been realigned, the next key the
\* sequence generates is M + 1, M being the largest loaded key, and so is
\* larger than every loaded key
C11_NextKeyIsMaxPlusOne ==
  entry = "full" =>
    \A t \in Tables :
      (seqval[t] # 0 /\ BagIds(target[t]) # {})
      => /\ NextVal(seqval[t]) = MaxId(target[t]) + 1
         /\ \A v \in BagIds(target[t]) : v < NextVal(seqval[t])

C11_Witness ==
  /\ entry = "full" /\ phase = "end"
  /\ \E t \in Tables :
       /\ hasKey[t] /\ idCat[t] = "int"
       /\ RowCount(target[t]) = 2
       /\ MaxId(target[t]) = 2
       /\ NextVal(seqval[t]) = 3

\* C12 as stated: once an attempt to open a connection has failed, no batch,
\* table or sequence step is executed any more
C12_EveryConnectFailureFatal ==
  [][connFailed => /\ target' = target
                   /\ seqval' = seqval
                   /\ attempts' = attempts
                   /\ fetched' = fetched
                   /\ tidx' = tidx
                   /\ phase' = phase]_vars

\* C12 amended: a failed create_connections ends the run at once; a worker
\* whose connection cannot be opened ends alone, with none of its offsets
\* attempted; a failed connect of the sequence realignment sets nothing for
\* that table and realignment goes to the next table
C12_OnlyManagerConnectFatal ==
  [][/\ (phase = "enter" /\ connFailed') => phase' = "raised"
     /\ phase # "raised"
     /\ \A w \in Workers :
          /\ (wpc[w] # "raised" /\ wpc'[w] = "raised")
             => (connFailed' /\ attempts[w] = <<>> /\ pc' = pc
                   /\ \A v \in Workers \ {w} : wpc'[v] = wpc[v])
          /\ wpc[w] = "raised" => (wpc'[w] = "raised" /\ attempts'[w] = <<>>)
     /\ (phase = "sequences" /\ "postgres" \notin mconn /\ "postgres" \notin mconn')
          => (seqval' = seqval
                /\ phase' = (IF tidx = NumTables THEN "end" ELSE "sequences")
                /\ tidx' = (IF tidx = NumTables THEN tidx ELSE tidx + 1))]_vars

C12_Witness ==
  /\ entry = "parallel" /\ pc = "done" /\ connFailed
  /\ \E w, v \in Workers :
       wpc[w] = "raised" /\ wpc[v] = "returned" /\ wcount[v] > 0

\* a realignment whose connect failed for the first table and succeeded later
C12_RealignmentGoesOn ==
  /\ entry = "sequences" /\ phase = "end" /\ connFailed
  /\ hasKey[1] /\ seqval[1] = 0 /\ seqval[NumTables] = 2

\* C13: in a full migration a failure to create one target table does not
\* end the run: table creation goes on with the remaining tables
C13_CreationContinues ==
  [][(entry = "full" /\ phase = "create") => phase' \in {"create", "migrate"}]_vars

\* C14: the table and each of its indexes are commit units of their own.  A
\* CREATE INDEX step, failed or not, never removes the table or an index
\* committed before, creates at most its own index, never raises, and is
\* followed by the next index of the table; when create_postgres_table
\* returns, every index of the table has been attempted
C14_IndexFailureIsLocal ==
  [][entry = "full" =>
       /\ \A t \in Tables : exists[t] => exists'[t]
       /\ \A t \in Tables : pgIndexes[t] \subseteq pgIndexes'[t]
       /\ (phase = "create" /\ ipos >= 1) =>
            /\ phase' # "raised"
            /\ exists'[tidx]
            /\ idxTried'[tidx] = idxTried[tidx] \cup {ipos}
            /\ pgIndexes'[tidx] \in {pgIndexes[tidx], pgIndexes[tidx] \cup {ipos}}
            /\ \/ ipos' = ipos + 1 /\ ipos < Cardinality(srcIndexes[tidx])
               \/ ipos' = 0 /\ ipos = Cardinality(srcIndexes[tidx])
       /\ (phase = "create" /\ (tidx' # tidx \/ phase' = "migrate"))
            => idxTried'[tidx] = srcIndexes[tidx]]_vars

C14_Witness ==
  /\ entry = "full" /\ phase = "end"
  /\ \E t \in Tables :
       /\ exists[t]
       /\ srcIndexes[t] = {1, 2}
       /\ idxTried[t] = {1, 2}
       /\ pgIndexes[t] = {2}

\* C15: every step of the sequence realignment, failed or not, is followed by
\* the step of the next table of the list (or by the end of the list), and
\* changes the sequence of no other table: a realignment committed for an
\* earlier table is not undone
C15_RealignmentContinues ==
  [][(entry = "full" /\ phase = "sequences") =>
       /\ tidx < NumTables => (phase' = "sequences" /\ tidx' = tidx + 1)
       /\ tidx = NumTables => phase' = "end"
       /\ \A t \in Tables \ {tidx} : seqval'[t] = seqval[t]
       /\ seqval'[tidx] \in {seqval[tidx], SetvalArg(target[tidx])}]_vars

C15_Witness ==
  /\ entry = "full" /\ phase = "end" /\ failedAny
  /\ hasKey[1] /\ exists[1] /\ RowCount(target[1]) = 2 /\ seqval[1] = 0
  /\ hasKey[2] /\ exists[2] /\ RowCount(target[2]) = 1 /\ seqval[2] = 1

\* the rows of the batches of worker w that completed without error
RECURSIVE SuccessRows(_, _)
SuccessRows(w, k) ==
  IF k = 0 THEN 0
  ELSE (IF groups[w][k] \in Range(attempts[w]) \ Range(wfails[w])
        THEN Len(Page(source[cur], groups[w][k], batch_size)) ELSE 0)
       + SuccessRows(w, k - 1)

RECURSIVE SumSuccessRows(_)
SumSuccessRows(n) ==
  IF n = 0 THEN 0 ELSE SuccessRows(n, Len(groups[n])) + SumSuccessRows(n - 1)

\* the aggregate of migrate_table_parallel is the sum of the row counts of
\* the batches that completed without error, and at most the snapshot total
C16_Aggregate ==
  (entry = "parallel" /\ pc = "done" /\ total >= 1)
  => /\ migrated = SumSuccessRows(Len(groups))
     /\ migrated <= total

\* C16: when migrate_table_parallel returns, every worker has finished and
\* has closed its connections, and the aggregate is the sum of the row
\* counts of the batches that completed without error, at most the total
C16_WaitsClosesAndSums ==
  (entry = "parallel" /\ pc = "done" /\ total >= 1)
  => /\ \A w \in Workers : wpc[w] \in {"none", "returned", "raised"}
     /\ \A w \in Workers : wopen[w] = {}
     /\ migrated = SumSuccessRows(Len(groups))
     /\ migrated <= total
\* the sequence s is a prefix of range(0, total, batch_size)
IsOffsetPrefix(s) ==
  /\ Len(s) <= Len(Offsets(total, batch_size))
  /\ \A i \in 1..Len(s) : s[i] = Offsets(total, batch_size)[i]

\* C17: within one sequential run the batches are committed in increasing
\* offset order: the pages fetched and the pages whose insert is committed
\* are both prefixes of the offset list, a page is fetched only when all the
\* pages before it are committed, and at most the page last fetched is not
C17_CommitsInOffsetOrder ==
  (entry = "single" /\ pc \in {"loop", "rows", "raised", "done"})
  => /\ IsOffsetPrefix(fetched[cur])
     /\ IsOffsetPrefix(processed[cur])
     /\ inserts[cur] <= Len(processed[cur])
     /\ pc \in {"loop", "done"} => Len(fetched[cur]) = Len(processed[cur])
     /\ pc = "rows" => Len(fetched[cur]) = Len(processed[cur]) + 1
     /\ pc = "raised" => Len(fetched[cur]) = Len(processed[cur]) + 1
     /\ pc = "done" => Len(processed[cur]) = Len(Offsets(total, batch_size))

\* two pages are committed and the third is fetched
C17_Witness ==
  /\ entry = "single" /\ pc = "rows"
  /\ Len(processed[cur]) = 2 /\ inserts[cur] = 2
  /\ fetched[cur] = <<0, 1, 2>>
  /\ rows # <<>>
SourceValues == Range(transform_data_types(idCat[cur], source[cur]))

\* a full migration of table cur has returned without failure on an unmodified
\* source, and it started from a target holding a subset of the source rows
ResumedRunDone ==
  /\ entry = "single" /\ pc = "done" /\ runs = 1
  /\ wrote = 0 /\ ~failedAny
  /\ BagIds(startTarget) \subseteq SourceValues
  /\ \A v \in Ids : startTarget[v] <= 1

DeltaSet == startIds \ BagIds(startTarget)

\* C20: a delta sync requests from the source only ids of the DeltaSet, every
\* row that was in the target before the sync is still there, as many times
\* as before, and every row the sync has added is the transformed row of an
\* id of the DeltaSet
C20_LoadsOnlyDeltaSet ==
  (entry \in {"delta", "deltapar"} /\ runs >= 1)
  => /\ requested \subseteq DeltaSet
     /\ \A v \in Ids : target[cur][v] >= startTarget[v]
     /\ \A v \in Ids : target[cur][v] > startTarget[v]
          => \E i \in DeltaSet : v = Coerce(idCat[cur], i)

\* a sync that found some rows in the target, requested the two missing ids
\* and has returned
C20_Witness ==
  /\ entry = "delta" /\ pc = "done" /\ ~failedAny
  /\ RowCount(startTarget) >= 1
  /\ Cardinality(requested) = 2
  /\ RowCount(target[cur]) = RowCount(startTarget) + 2
\* C21: every connection the engine opens is closed on every exit path: once
\* a scenario run or a manager context has ended (also by an exception of
\* create_connections) the manager holds no open connection, and a parallel
\* worker that has returned or raised holds none either
C21_NoConnectionLeftOpen ==
  /\ (entry \in {"single", "delta", "scenario"} /\ phase \in {"raised", "end"})
       => mconn = {}
  /\ \A w \in Workers : wpc[w] \in {"returned", "raised"} => wopen[w] = {}
\* C22: in a full migration the steps of every table happen in the order
\* creation, loading, realignment: a batch insert into a table happens only
\* after the creation step of that table and before its realignment, a table
\* is realigned only after its creation step, and when the migration is over
\* every table has had its creation step and its realignment
C22_CreateLoadRealign ==
  [][(entry \in {"full", "scenario"})
     => \A t \in Tables :
          /\ (target'[t] # target[t]) => (t \in createTried /\ t \notin seqTried)
          /\ (t \in seqTried' /\ t \notin seqTried) => t \in createTried
          /\ (phase' = "end") => (t \in createTried' /\ t \in seqTried')
    ]_vars
\* a result that is a type name, not the mark of an exception
IsTargetType(p) == p # "" /\ SubSeq(p, 1, 1) # "<"

\* C23: type mapping is total: whatever the type string, also an empty or
\* an absent one, map_mysql_to_postgres_type returns a target type and does
\* not raise, and a string that classifies as unknown maps to TEXT
C23_MappingIsTotal ==
  (entry \in {"mapping", "script_mapping"} /\ pg_type # "")
  => /\ IsTargetType(pg_type)
     /\ get_mysql_type_category(mysql_type, given) = "unknown" => pg_type = "TEXT"

\* the type string a server reports for a decimal column, in either case
DecimalType(n, p, sc, tail) ==
  {n \o "(" \o p \o "," \o sc \o ")" \o tail,
   Upper(n \o "(" \o p \o "," \o sc \o ")" \o tail)}

\* C24: decimal(p,s) and numeric(p,s) map to NUMERIC(p,s) with the same p and
\* s, and a decimal or numeric type without parentheses maps to NUMERIC
C24_NumericKeepsPrecisionScale ==
  (entry \in {"mapping", "script_mapping"} /\ given /\ pg_type # "")
  => /\ \A n \in {"decimal", "numeric"}, ps \in {<<"10", "2">>, <<"65", "30">>},
          tail \in {"", " unsigned"} :
          mysql_type \in DecimalType(n, ps[1], ps[2], tail)
            => pg_type = "NUMERIC(" \o ps[1] \o "," \o ps[2] \o ")"
     /\ \A n \in {"decimal", "numeric"}, tail \in {"", " unsigned"} :
          mysql_type \in {n \o tail, Upper(n \o tail)} => pg_type = "NUMERIC"

\* decimal(10,2) has been mapped to NUMERIC(10,2)
C24_Witness ==
  /\ entry = "mapping" /\ given
  /\ mysql_type = "decimal(10,2)"
  /\ pg_type = "NUMERIC(10,2)"

\* C30 as stated: every type that contains "tinyint" and "(1)" classifies as
\* boolean, every other type that contains "bigint" as bigint, the result
\* is a member of the closed category set and does not depend on letter case
C30_BothSubstringsBoolean ==
  (entry = "mapping" /\ category # "")
  => LET lo == Lower(OrEmpty(mysql_type, given)) IN
     /\ (Contains(lo, "tinyint") /\ Contains(lo, "(1)")) => category = "boolean"
     /\ (~(Contains(lo, "tinyint") /\ Contains(lo, "(1)")) /\ Contains(lo, "bigint"))
          => category = "bigint"
     /\ category \in Categories
     /\ category = get_mysql_type_category(Upper(mysql_type), given)
     /\ category = get_mysql_type_category(Lower(mysql_type), given)

\* C30 amended: exactly the types that contain "tinyint(1)" classify as
\* boolean, every other type that contains "bigint" classifies as bigint,
\* the result is a member of the closed category set and does not depend on
\* letter case
C30_ClassifyPriority ==
  (entry = "mapping" /\ category # "")
  => LET lo == Lower(OrEmpty(mysql_type, given)) IN
     /\ Contains(lo, "tinyint(1)") <=> category = "boolean"
     /\ (~Contains(lo, "tinyint(1)") /\ Contains(lo, "bigint")) => category = "bigint"
     /\ category \in Categories
     /\ category = get_mysql_type_category(Upper(mysql_type), given)
     /\ category = get_mysql_type_category(Lower(mysql_type), given)

\* TINYINT(1) UNSIGNED has been classified as boolean, whatever its case
C30_Witness ==
  /\ entry = "mapping" /\ given
  /\ mysql_type = "TINYINT(1) UNSIGNED"
  /\ category = "boolean"

\* C25: an int-category column that is not all missing is coerced to Int64
\* when its maximum exceeds 2_147_483_647 and to Int32 otherwise, and every
\* value of the column fits the chosen width
C25_WidthFromMaximum ==
  (entry = "coerce" /\ dtype # "" /\ category = "int" /\ ~AllNull(column))
  => /\ Greater(ColumnMax(column), Int32Max) => dtype = "Int64"
     /\ ~Greater(ColumnMax(column), Int32Max) => dtype = "Int32"
     /\ \A v \in NotNull(column) : FitsDtype(v, dtype)

\* a column with maximum 5_000_000_000 has been coerced to Int64
C25_Witness ==
  /\ entry = "coerce" /\ category = "int"
  /\ Len(column) = 2 /\ <<0, 100>> \in NotNull(column)
  /\ ColumnMax(column) = <<76293, 61952>>
  /\ dtype = "Int64"

\* a column with maximum 100 and a missing cell has been coerced to Int32
C25_WitnessNarrow ==
  /\ entry = "coerce" /\ category = "int"
  /\ column = <<Null, <<0, 100>>>>
  /\ dtype = "Int32"

\* the sequential loop is running or has ended
InMigrateTable == entry = "single" /\ pc \in {"loop", "rows", "raised", "done"}

\* the total is not read again between the start of migrate_table and its
\* end, the loop never runs more than ceil(total / batch_size) times and has
\* run exactly that often when migrate_table returns
FetchesFixedBySnapshot ==
  /\ [][(InMigrateTable /\ pc' # "idle") => total' = total]_vars
  /\ [](InMigrateTable
         => /\ Len(fetched[cur]) <= CeilDiv(total, batch_size)
            /\ pc = "done" => Len(fetched[cur]) = CeilDiv(total, batch_size))

\* C26 as stated: the number of page fetches is fixed by the total read at
\* the start, whatever is written to the source meanwhile, and no row at a
\* position beyond that total is picked up
C26_NothingBeyondSnapshot ==
  /\ FetchesFixedBySnapshot
  /\ []((InMigrateTable /\ pc = "rows") => offset + Len(rows) <= total)

\* C26: the number of page fetches is fixed by the total read at the start,
\* whatever is written to the source meanwhile, and no row at a position
\* beyond the last page of that total is picked up
C26_NothingBeyondLastPage ==
  /\ FetchesFixedBySnapshot
  /\ []((InMigrateTable /\ pc = "rows")
         => /\ offset < total
            /\ offset + Len(rows) <= CeilDiv(total, batch_size) * batch_size)

\* a run has returned after ceil(total / batch_size) fetches although the
\* source grew beyond the total while it ran
C26_Witness ==
  /\ entry = "single" /\ pc = "done" /\ runs = 1
  /\ wrote > 0
  /\ total >= 1
  /\ Len(source[cur]) > total
  /\ Len(fetched[cur]) = CeilDiv(total, batch_size)

\* a sequence of ids in strictly increasing order
StrictlyIncreasing(m) == \A i \in 1..(Len(m) - 1) : m[i] < m[i + 1]

\* the step in which get_missing_ids returns
GetMissingIdsReturns ==
  entry \in {"delta", "deltapar"} /\ pc = "scan" /\ pc' \notin {"scan", "raised"}

\* C27: get_missing_ids returns the ids read from the source that are not
\* among the ids read from the target, in strictly increasing order; when
\* there is none the sync ends at once, without a fetch and without an insert
C27_SortedDifference ==
  /\ [][GetMissingIdsReturns
        => /\ StrictlyIncreasing(missing')
           /\ Range(missing') = mysql_ids \ BagIds(target[cur])
           /\ (mysql_ids \subseteq BagIds(target[cur])) <=> (missing' = <<>>)
           /\ (missing' = <<>>) => pc' = "done"
       ]_vars
  /\ []((entry \in {"delta", "deltapar"} /\ runs >= 1 /\ pc = "done"
           /\ missing = <<>>)
         => /\ requested = {}
            /\ inserts[cur] = 0
            /\ target[cur] = startTarget)

\* get_missing_ids has returned the ids 1 and 3 of a source whose id 2 is
\* in the target already
C27_Witness ==
  /\ entry = "delta" /\ pc = "chunk" /\ cidx = 0
  /\ mysql_ids = {1, 2, 3}
  /\ BagIds(target[cur]) = {2}
  /\ missing = <<1, 3>>

\* every source id was in the target and the sync has ended without a fetch
C27_WitnessEmpty ==
  /\ entry = "delta" /\ pc = "done" /\ runs = 1
  /\ mysql_ids # {}
  /\ missing = <<>> /\ requested = {}

\* the chunks of m, one after the other
RECURSIVE ConcatChunks(_, _, _)
ConcatChunks(m, n, b) ==
  IF n = 0 THEN <<>> ELSE ConcatChunks(m, n - 1, b) \o Chunk(m, n - 1, b)

\* the number of source queries whose IN list holds the id v
TimesRequested(v) == Cardinality({i \in 1..Len(inlists) : v \in Range(inlists[i])})

C29_ConflictSkipInsert ==
  [][(entry = "single" /\ pc = "rows" /\ pc' # "rows")
     => LET vals == transform_data_types(idCat[cur], rows) IN
        /\ rows = <<>>
             => target' = target /\ inserts' = inserts /\ pc' = "loop"
        /\ (rows # <<>> /\ inserts' = inserts)
             => target' = target /\ pc' # "loop"
        /\ (rows # <<>> /\ inserts' # inserts)
             => /\ inserts'[cur] = inserts[cur] + 1
                /\ \A v \in Ids :
                     target'[cur][v] =
                       IF hasKey[cur]
                       THEN IF target[cur][v] > 0 THEN target[cur][v]
                            ELSE IF CountIn(vals, v) > 0 THEN 1 ELSE 0
                       ELSE target[cur][v] + CountIn(vals, v)
    ]_vars

\* a batch of the ids 1 and 2 has been inserted without error into a keyed
\* target that held the id 1: it now holds each of them once
C29_Witness ==
  /\ entry = "single" /\ pc = "done" /\ runs = 1 /\ ~failedAny
  /\ hasKey[cur] /\ idCat[cur] = "int"
  /\ batch_size = 2 /\ total = 2 /\ wrote = 0
  /\ BagIds(startTarget) = {1}
  /\ inserts[cur] = 1
  /\ target[cur][1] = 1 /\ target[cur][2] = 1

\* C40: a type of the form enum(...) or set(...) classifies as enum and maps
\* to VARCHAR(255), whatever its value list contains
C40_EnumWhateverItsValues ==
  (entry \in {"mapping", "script_mapping"} /\ given /\ mysql_type \in EnumTypes)
  => /\ category # "" => category = "enum"
     /\ pg_type # "" => pg_type = "VARCHAR(255)"

\* the column definition carries the clause
HasClause(def, clause) == Contains(def, clause)

\* C31: an auto-increment column is defined as SERIAL, or BIGSERIAL when its
\* source type contains "bigint", and its definition carries neither NOT NULL
\* nor DEFAULT, whatever is_nullable and default are
C31_SerialWithoutClauses ==
  (entry = "columndef" /\ col_def # "" /\ IsAutoIncrement(extra))
  => /\ col_def = ColumnName \o (IF Contains(Lower(mysql_type), "bigint")
                                   THEN " BIGSERIAL" ELSE " SERIAL")
     /\ ~HasClause(col_def, "NOT NULL")
     /\ ~HasClause(col_def, "DEFAULT")

\* a NOT NULL bigint auto-increment column with a default is defined as
\* BIGSERIAL and nothing else
C31_Witness ==
  /\ entry = "columndef"
  /\ mysql_type = "bigint(20)" /\ extra = "auto_increment"
  /\ is_nullable = "NO" /\ default = <<"0">>
  /\ col_def = "c BIGSERIAL"

\* C32 as stated: a column that is not auto-increment and not nullable gets
\* NOT NULL and no DEFAULT; DEFAULT is emitted only for a column that is
\* neither auto-increment nor NOT NULL and has a default other than "NULL"
C32_ElseIfChain ==
  (entry = "columndef" /\ col_def # "")
  => /\ (~IsAutoIncrement(extra) /\ is_nullable = "NO")
          => HasClause(col_def, " NOT NULL") /\ ~HasClause(col_def, " DEFAULT ")
     /\ HasClause(col_def, " DEFAULT ")
          => /\ ~IsAutoIncrement(extra)
             /\ ~HasClause(col_def, " NOT NULL")
             /\ default # <<>> /\ default[1] # "NULL"

\* C32: the rules are separate tests: a column that is not auto-increment
\* gets NOT NULL exactly when it is not nullable, and DEFAULT exactly when
\* its default is present and not "NULL", also when it is NOT NULL; NOT NULL
\* comes before DEFAULT
C32_IndependentClauses ==
  (entry = "columndef" /\ col_def # "")
  => /\ HasClause(col_def, " NOT NULL")
          <=> (~IsAutoIncrement(extra) /\ is_nullable = "NO")
     /\ HasClause(col_def, " DEFAULT ")
          <=> (~IsAutoIncrement(extra) /\ default # <<>> /\ default[1] # "NULL")
     /\ (HasClause(col_def, " NOT NULL") /\ HasClause(col_def, " DEFAULT "))
          => Contains(col_def, " NOT NULL DEFAULT ")

\* a NOT NULL int column with the default 0 carries both clauses
C32_Witness ==
  /\ entry = "columndef"
  /\ mysql_type = "int(11)" /\ extra = ""
  /\ is_nullable = "NO" /\ default = <<"0">>
  /\ col_def = "c INTEGER NOT NULL DEFAULT 0"

\* the rows of the index metadata that belong to the index k
RowsOf(k) == SelectSeq(indexes, LAMBDA r : r.key_name = k)

\* the columns of the index k, in the order of its rows
ColumnsOf(k) == [i \in 1..Len(RowsOf(k)) |-> RowsOf(k)[i].column_name]

\* the number of entries of a dict for the index k
EntriesFor(keys, k) == Cardinality({i \in 1..Len(keys) : keys[i][1] = k})

\* C33: every index name other than PRIMARY is in exactly one of the two
\* groupings: an index whose rows are all unique gives one UNIQUE constraint
\* over its columns in order and no CREATE INDEX statement, every other index
\* gives one CREATE INDEX statement over its columns and no constraint; the
\* PRIMARY index gives neither, and there is nothing else
C33_EveryIndexInOnePlace ==
  (entry = "indexddl" /\ pc = "done")
  => /\ \A k \in {indexes[i].key_name : i \in 1..Len(indexes)} \ {"PRIMARY"} :
          IF \A i \in 1..Len(RowsOf(k)) : RowsOf(k)[i].non_unique = 0
          THEN /\ EntriesFor(unique_keys, k) = 1
               /\ EntriesFor(non_unique_keys, k) = 0
               /\ \E i \in 1..Len(unique_keys) :
                    /\ unique_keys[i] = <<k, ColumnsOf(k)>>
                    /\ constraints[i] = ColumnsOf(k)
          ELSE /\ EntriesFor(unique_keys, k) = 0
               /\ EntriesFor(non_unique_keys, k) = 1
               /\ \E i \in 1..Len(non_unique_keys) :
                    /\ non_unique_keys[i] = <<k, ColumnsOf(k)>>
                    /\ idx_stmts[i] = <<IndexName(table_name, k), ColumnsOf(k)>>
     /\ EntriesFor(unique_keys, "PRIMARY") = 0
     /\ EntriesFor(non_unique_keys, "PRIMARY") = 0
     /\ Len(constraints) = Len(unique_keys)
     /\ Len(idx_stmts) = Len(non_unique_keys)
     /\ Len(unique_keys) + Len(non_unique_keys)
          = Cardinality({indexes[i].key_name : i \in 1..Len(indexes)} \ {"PRIMARY"})

\* a table with a primary key, a unique index on (a, b) and none else has
\* got one UNIQUE constraint and no CREATE INDEX statement
C33_Witness ==
  /\ entry = "indexddl" /\ pc = "done"
  /\ Len(indexes) = 3
  /\ \E i \in 1..Len(indexes) : indexes[i].key_name = "PRIMARY"
  /\ unique_keys = <<<<"email", <<"a", "b">>>>>>
  /\ constraints = <<<<"a", "b">>>>
  /\ idx_stmts = <<>>

\* a table with one non-unique index on (b, a) has got one CREATE INDEX
\* statement and no UNIQUE constraint
C33_WitnessPlain ==
  /\ entry = "indexddl" /\ pc = "done"
  /\ table_name = "orders"
  /\ constraints = <<>>
  /\ idx_stmts = <<<<"orders_email_idx", <<"b", "a">>>>>>

\* C39: every index name built is at most 63 characters long, two different
\* non-unique indexes of a table get different names, and when no statement
\* fails every one of them creates its index
C39_NoIndexNameCollision ==
  (entry = "indexddl" /\ pc = "done")
  => /\ \A i \in 1..Len(idx_stmts) : Len(idx_stmts[i][1]) <= IdentifierLimit
     /\ \A i, j \in 1..Len(idx_stmts) :
          i # j => idx_stmts[i][1] # idx_stmts[j][1]
     /\ \A i \in 1..Len(idx_stmts) :
          (\E j \in 1..Len(idx_made) : idx_made[j][1] = idx_stmts[i][1])
            => \E j \in 1..Len(idx_made) : idx_made[j] = idx_stmts[i]

\* C34: update_sequence on a target table without primary key executes no
\* setval, leaves every sequence and every table as it is, and does not end
\* the realignment of the other tables
C34_NoKeyNoRealign ==
  [][(entry \in {"full", "sequences"} /\ phase = "sequences"
        /\ exists[tidx] /\ ~hasKey[tidx])
     => /\ setvals' = setvals
        /\ seqval' = seqval
        /\ target' = target
        /\ phase' # "raised"
        /\ tidx \in seqTried'
    ]_vars

\* the realignment has gone through two existing tables without primary key:
\* no setval, no sequence set
C34_Witness ==
  /\ entry = "sequences" /\ phase = "end"
  /\ \A t \in Tables : exists[t] /\ ~hasKey[t] /\ RowCount(target[t]) >= 1
  /\ seqTried = Tables
  /\ "postgres" \in mconn /\ ~failedAny
  /\ setvals = {}
  /\ \A t \in Tables : seqval[t] = 0

\* C35: the progress logged after each sequential batch is the pair
\* (min(offset, total), total): one report per batch, the done-count grows
\* strictly from report to report, never exceeds the total, and is the total
\* in the last report of a call that returns
C35_ProgressReports ==
  (entry = "single" /\ pc \in {"loop", "rows", "raised", "done"})
  => LET pr == progress[cur] IN
     /\ Len(pr) = Len(processed[cur])
     /\ \A i \in 1..Len(pr) :
          /\ pr[i] = <<Min(processed[cur][i] + batch_size, total), total>>
          /\ pr[i][1] <= total
          /\ pr[i][1] >= 1
     /\ \A i \in 1..(Len(pr) - 1) : pr[i][1] < pr[i + 1][1]
     /\ (pc = "done" /\ total > 0) => pr[Len(pr)][1] = total
     /\ (pc = "done" /\ total = 0) => pr = <<>>

\* a migration of three rows in batches of two has logged (2, 3) and (3, 3)
C35_Witness ==
  /\ entry = "single" /\ pc = "done"
  /\ batch_size = 2 /\ total = 3
  /\ progress[cur] = <<<<2, 3>>, <<3, 3>>>>

\* C37: when a worker takes its next offset, its target connection is not in
\* a failed transaction and holds no statement of an earlier batch that was
\* neither committed nor rolled back
C37_RolledBackBeforeNextOffset ==
  (entry = "parallel")
  => \A w \in Workers :
       (wpc[w] \in {"fetch", "load"} /\ widx[w] <= Len(groups[w]))
       => ~txAborted[w] /\ wpending[w] = <<>>

\* C38: every task of the parallel delta sync loads exactly the source rows
\* whose value in the id column passed to migrate_missing_rows_parallel is in
\* the task's chunk
C38_FetchedBySameColumn ==
  \A i \in 1..Len(loaded) :
    Range(loaded[i].rows) =
      {r \in Range(src_rows) : r[ColumnIndex(id_column)] \in Range(loaded[i].batch_ids)}

\* no batch of the call has failed: no fetch or insert of migrate_table
\* raised, no worker recorded a failed offset or left with an exception
NoFailingBatch ==
  /\ ~failedAny
  /\ \A w \in Workers : wfails[w] = <<>> /\ wpc[w] # "raised"

\* the rows a full transfer leaves in the target: the rows it held before
\* and the transformed rows of the source
FullOutcome == BagIds(startTarget) \cup Range(transform_data_types(idCat[cur], source[cur]))

\* C36: whichever of migrate_table and migrate_table_parallel has returned
\* without a failing batch, for any worker count and any interleaving of
\* the workers, the set of rows in the target is the same function of the
\* stores the call started from
C36_SameOutcome ==
  (entry \in {"single", "parallel"} /\ pc = "done" /\ NoFailingBatch)
  => BagIds(target[cur]) = FullOutcome

\* two workers have loaded the pages of a three-row table between them
C36_Witness ==
  /\ entry = "parallel" /\ pc = "done" /\ NoFailingBatch
  /\ Len(source[cur]) = 3 /\ batch_size = 1 /\ threads = 2
  /\ wcount[1] = 2 /\ wcount[2] = 1
  /\ BagIds(startTarget) = {2}
  /\ BagIds(target[cur]) = FullOutcome

\* migrate_table has loaded the same table from the same stores
C36_WitnessSequential ==
  /\ entry = "single" /\ pc = "done" /\ NoFailingBatch
  /\ Len(source[cur]) = 3 /\ batch_size = 1
  /\ inserts[cur] = 3
  /\ BagIds(startTarget) = {2}
  /\ BagIds(target[cur]) = FullOutcome

====
